---------------------------- MODULE Spec2Model ----------------------------
(***************************************************************************)
(* A model of the seo-sitemap-checker scripts:                             *)
(*   - sitemap.js                   the sequential URL status scan         *)
(*   - soft404.js, lines 628-1205   the rate-limited status scan           *)
(*                                  (runWithConcurrency, 429 retry logic)  *)
(* Strings are modelled by their structure: a URL string is a record of    *)
(* its origin, its path segments, its trailing slash and its query, so     *)
(* that parsing, normalising and rebuilding a URL are real conversions.    *)
(***************************************************************************)
EXTENDS Integers, Sequences, FiniteSets, TLC

(***************************************************************************)
(* Bounds of the model.                                                    *)
(***************************************************************************)
\* longest raw <loc> list of a leaf sitemap in the sequential scan
MaxUrls == 2
\* largest batch handed to runWithConcurrency
MaxTasks == 3
\* deepest nesting of processSitemap calls followed in a run
MaxDepth == 3
\* most repetitions of a <loc> after its first occurrence in a raw leaf
MaxRepeats == 2
\* longest list of broken URLs, and longest known-good list, given to findSimilarUrl
MaxBroken == 2
MaxGood == 2

(***************************************************************************)
(* Program constants.                                                      *)
(***************************************************************************)
CONCURRENCY_LIMIT == 3
REQUEST_DELAY == 500
RETRY_ATTEMPTS == 3
RETRY_DELAY == 2000
\* the status value 'Network Error' of a probe without any HTTP response
NetworkError == 0

(***************************************************************************)
(* Strings.  A keyword is a sequence of characters, a path segment is a    *)
(* non-empty sequence of keywords (the segment split on '-'); the empty    *)
(* string, as a segment, is the single empty keyword.                      *)
(***************************************************************************)
K_blog == <<"b", "l", "o", "g">>
K_old == <<"o", "l", "d">>
K_post == <<"p", "o", "s", "t">>
EmptySegment == << <<>> >>
S_blog == <<K_blog>>
S_old_post == <<K_old, K_post>>

\* origins, as sequences of chunks: string prefix is sequence prefix
OriginA == <<"https://a", ".com">>
OriginB == <<"https://b", ".org">>
\* "https://a.com.au": another origin, of which "https://a.com" is a string prefix
OriginAu == <<"https://a", ".com", ".au">>

\* an absolute URL string: origin + "/" + segments joined by "/" + ("/")? + ("?q")?
\* (with no segment: origin, or origin + "/" when slash)
AbsUrl(o, p, s, q) == [kind |-> "abs", origin |-> o, path |-> p, slash |-> s, query |-> q]
\* a path-absolute reference "/seg/seg", as a Location header may hold
RelUrl(p, s) == [kind |-> "rel", origin |-> <<>>, path |-> p, slash |-> s, query |-> FALSE]
\* the JavaScript value undefined, and the empty string ''
Undefined == [kind |-> "undefined", origin |-> <<>>, path |-> <<>>, slash |-> FALSE, query |-> FALSE]
EmptyString == [kind |-> "empty", origin |-> <<>>, path |-> <<>>, slash |-> FALSE, query |-> FALSE]

\* a string no URL parser accepts, whatever the base (such as "https://")
BadUrl == [kind |-> "bad", origin |-> <<>>, path |-> <<>>, slash |-> FALSE, query |-> FALSE]

\* a value is "truthy" as a string when it is neither undefined nor ''
Truthy(s) == s.kind \notin {"undefined", "empty"}

U_blog == AbsUrl(OriginA, <<S_blog>>, FALSE, FALSE)
U_blogSlash == AbsUrl(OriginA, <<S_blog>>, TRUE, FALSE)
U_blogQuery == AbsUrl(OriginA, <<S_blog>>, FALSE, TRUE)
U_post == AbsUrl(OriginA, <<S_blog, S_old_post>>, FALSE, FALSE)
U_ext == AbsUrl(OriginB, <<S_blog>>, FALSE, FALSE)
R_blog == RelUrl(<<S_blog>>, FALSE)
K_sitemap == <<"s", "m">>
K_posts == <<"p", "o", "s", "t", "s">>
U_deep == AbsUrl(OriginA, <<S_blog, S_old_post, <<K_old>>>>, FALSE, FALSE)
U_old == AbsUrl(OriginA, <<<<K_old>>>>, FALSE, FALSE)
U_posts == AbsUrl(OriginA, <<<<K_posts>>>>, FALSE, FALSE)
U_rootSlash == AbsUrl(OriginA, <<>>, TRUE, FALSE)
\* https://a.com/Demo
U_demo == AbsUrl(OriginA, <<<<<<"D", "e", "m", "o">>>>>>, FALSE, FALSE)
U_auPost == AbsUrl(OriginAu, <<S_old_post>>, FALSE, FALSE)
SitemapUrlA == AbsUrl(OriginA, <<<<K_sitemap>>>>, FALSE, FALSE)

(***************************************************************************)
(* The WHATWG URL parser, as far as the scripts use it.                    *)
(***************************************************************************)
\* mutant of Parses: new URL(url) never throws
ParsesAnything(url) == TRUE

\* new URL(url) succeeds
Parses(url) == url.kind = "abs"
\* new URL(url, base) succeeds
ParsesWith(url, base) == url.kind = "abs" \/ (url.kind \in {"rel", "empty"} /\ base.kind = "abs")
\* new URL(url, base): an absolute url ignores the base, a path-absolute
\* reference takes the base's origin, '' is the base without its fragment
Resolve(url, base) ==
  IF url.kind = "abs" THEN url
  ELSE IF url.kind = "rel" THEN AbsUrl(base.origin, url.path, url.slash, url.query)
  ELSE base
\* .pathname: "/" + segments joined by "/", "/" alone when there is none
Pathname(u) == [segs |-> u.path, slash |-> (u.slash \/ u.path = <<>>)]
\* pathname.split('/')
SplitSlash(p) ==
  <<EmptySegment>> \o p.segs \o (IF p.slash THEN <<EmptySegment>> ELSE <<>>)
IsNonEmptyString(seg) == seg # EmptySegment
\* pathname.split('/').filter((part) => part)
PathParts(u) == SelectSeq(SplitSlash(Pathname(u)), IsNonEmptyString)

RECURSIVE Flatten(_)
\* parts.flatMap((part) => part.split('-')): a segment is its keyword list
Flatten(parts) == IF parts = <<>> THEN <<>> ELSE Head(parts) \o Flatten(Tail(parts))

\* a.includes(b) on strings: b occurs in a as a contiguous substring
Includes(a, b) ==
  \E k \in 0..(Len(a) - Len(b)) : SubSeq(a, k + 1, k + Len(b)) = b

\* url.startsWith(origin): a prefix test on the raw strings
StartsWith(url, origin) ==
  /\ url.kind = "abs"
  /\ Len(url.origin) >= Len(origin)
  /\ SubSeq(url.origin, 1, Len(origin)) = origin

\* array.includes(x)
InSeq(x, seq) == \E k \in 1..Len(seq) : seq[k] = x

(***************************************************************************)
(* normalizeUrl: origin + pathname without its trailing slash; the raw     *)
(* string when it does not parse.                                          *)
(***************************************************************************)
normalizeUrl(url, baseUrl) ==
  IF ~ParsesWith(url, baseUrl) THEN url
  ELSE LET fullUrl == Resolve(url, baseUrl)
           pathname == Pathname(fullUrl)
           normalizedPath ==
             IF pathname.slash /\ pathname.segs # <<>>
             THEN [pathname EXCEPT !.slash = FALSE]
             ELSE pathname
       IN AbsUrl(fullUrl.origin, normalizedPath.segs, normalizedPath.slash, FALSE)

(***************************************************************************)
(* findSimilarUrl: parent paths, then keyword overlap, then the origin.    *)
(***************************************************************************)
\* the parent URL tried at step k of strategy 1: origin + '/' + parts[0..k) joined
ParentUrl(origin, pathParts, k) == AbsUrl(origin, SubSeq(pathParts, 1, k), k = 0, FALSE)

\* mutant of ParentMatch: the parents are tried from the root upwards
ParentMatchFromRoot(origin, pathParts, validUrls) ==
  LET hits == {k \in 0..(Len(pathParts) - 1) :
                 InSeq(ParentUrl(origin, pathParts, k), validUrls)}
  IN IF hits = {} THEN -1 ELSE CHOOSE k \in hits : \A j \in hits : k <= j

\* strategy 1: the first k, from pathParts.length - 1 down to 0, whose parent
\* URL is one of validUrls; -1 when there is none
ParentMatch(origin, pathParts, validUrls) ==
  LET hits == {k \in 0..(Len(pathParts) - 1) :
                 InSeq(ParentUrl(origin, pathParts, k), validUrls)}
  IN IF hits = {} THEN -1 ELSE CHOOSE k \in hits : \A j \in hits : j <= k

\* the keyword-overlap test of strategy 2 on one candidate URL
KeywordOverlap(keywords, url) ==
  /\ Parses(url)
  /\ LET pathKeywords == Flatten(PathParts(url))
     IN \E a \in 1..Len(keywords) :
          /\ Len(keywords[a]) > 3
          /\ \E b \in 1..Len(pathKeywords) :
               \/ Includes(pathKeywords[b], keywords[a])
               \/ Includes(keywords[a], pathKeywords[b])

\* mutant of Homepage: the homepage is the origin followed by '/'
HomepageWithSlash(origin) == AbsUrl(origin, <<>>, TRUE, FALSE)

\* strategy 3: return parsedUrl.origin
Homepage(origin) == AbsUrl(origin, <<>>, FALSE, FALSE)

findSimilarUrl(notFoundUrl, validUrls) ==
  IF Len(validUrls) = 0 THEN EmptyString
  ELSE IF ~Parses(notFoundUrl) THEN EmptyString
  ELSE LET origin == notFoundUrl.origin
           pathParts == PathParts(notFoundUrl)
           k == ParentMatch(origin, pathParts, validUrls)
           keywords == Flatten(pathParts)
           IsRelevant(url) == StartsWith(url, origin)
           relevantUrls == SelectSeq(validUrls, IsRelevant)
           IsSimilar(url) == KeywordOverlap(keywords, url)
           similarUrls == SelectSeq(relevantUrls, IsSimilar)
       IN IF k >= 0 THEN ParentUrl(origin, pathParts, k)
          ELSE IF Len(similarUrls) > 0 THEN similarUrls[1]
          ELSE Homepage(origin)

(***************************************************************************)
(* HTTP.  An answer is what the server does with one request: a status     *)
(* and a Location header (Undefined when the header is missing), or no     *)
(* response at all (connection failure, timeout).                          *)
(***************************************************************************)
NoResponse == [responded |-> FALSE, status |-> NetworkError, location |-> Undefined]
Answer(status, location) == [responded |-> TRUE, status |-> status, location |-> location]

\* axios: the promise resolves when the server responded with a status that
\* validateStatus accepts (status < limit), and rejects otherwise
AxiosResolves(answer, limit) == answer.responded /\ answer.status < limit

\* return { url, status, redirectUrl: response.headers.location } for 301/302,
\* return { url, status } otherwise
ResultOf(url, response) ==
  IF response.status = 301 \/ response.status = 302
  THEN [url |-> url, status |-> response.status, redirectUrl |-> response.location]
  ELSE [url |-> url, status |-> response.status, redirectUrl |-> Undefined]

\* mutant of ErrorResult: the status of the error response is dropped
ErrorResultWithoutStatus(url, error) ==
  [url |-> url, status |-> NetworkError, redirectUrl |-> Undefined]

\* the catch block: error.response ? error.response.status : 'Network Error'
ErrorResult(url, error) ==
  [url |-> url,
   status |-> IF error.responded THEN error.status ELSE NetworkError,
   redirectUrl |-> Undefined]

\* sitemap.js checkUrlStatus: one GET, validateStatus: status < 400
checkUrlStatus(url, answer) ==
  IF AxiosResolves(answer, 400) THEN ResultOf(url, answer) ELSE ErrorResult(url, answer)

(***************************************************************************)
(* The leaf scan of processSitemap: de-duplication, the normalised-URL     *)
(* map, and the classification of one probe result.                        *)
(***************************************************************************)
\* mutant of Dedupe: the list is taken as it was parsed
DedupeKeepsAll(list, seen) == list

RECURSIVE Dedupe(_, _)
\* Array.from(new Set(list)): the distinct values in first-occurrence order
Dedupe(list, seen) ==
  IF list = <<>> THEN seen
  ELSE Dedupe(Tail(list), IF InSeq(Head(list), seen) THEN seen ELSE Append(seen, Head(list)))

\* Map.set(key, value): an existing key keeps its place and takes the new value
MapSet(map, key, value) ==
  IF \E k \in 1..Len(map) : map[k].key = key
  THEN [k \in 1..Len(map) |->
          IF map[k].key = key THEN [key |-> key, value |-> value] ELSE map[k]]
  ELSE Append(map, [key |-> key, value |-> value])

RECURSIVE BuildNormalizedUrlMap(_, _, _)
\* urls.forEach((url) => normalizedUrlMap.set(normalizeUrl(url, sitemapUrl), url))
BuildNormalizedUrlMap(urlList, sitemap, map) ==
  IF urlList = <<>> THEN map
  ELSE BuildNormalizedUrlMap(Tail(urlList), sitemap,
                             MapSet(map, normalizeUrl(Head(urlList), sitemap), Head(urlList)))

\* mutant of RedundancyLookup: the redirect target is compared with the
\* inventory URL itself instead of with its normalised form
RedundancyLookupRaw(map, normalizedRedirectUrl) ==
  LET hits == {k \in 1..Len(map) : map[k].value = normalizedRedirectUrl}
  IN IF hits = {} THEN [found |-> FALSE, target |-> EmptyString]
     ELSE [found |-> TRUE,
           target |-> map[CHOOSE k \in hits : \A j \in hits : k <= j].value]

\* the loop over normalizedUrlMap.entries(): the first entry whose key is the
\* normalised redirect target
RedundancyLookup(map, normalizedRedirectUrl) ==
  LET hits == {k \in 1..Len(map) : map[k].key = normalizedRedirectUrl}
  IN IF hits = {} THEN [found |-> FALSE, target |-> EmptyString]
     ELSE [found |-> TRUE,
           target |-> map[CHOOSE k \in hits : \A j \in hits : k <= j].value]

\* mutant of IsSuccess: every 2xx status counts as a success
IsSuccessAny2xx(status) == status >= 200 /\ status < 300

\* if (result.status === 200)
IsSuccess(status) == status = 200

\* else if ((result.status === 301 || result.status === 302) && result.redirectUrl)
IsRedirect(result) ==
  (result.status = 301 \/ result.status = 302) /\ Truthy(result.redirectUrl)

\* the accumulators of a leaf scan before its first probe
EmptyAcc ==
  [results |-> <<>>, validUrls |-> <<>>, successCount |-> 0,
   redirectCount |-> 0, errorCount |-> 0, redundantCount |-> 0]

\* one iteration of the classification loop; suggestNow is the script's
\* condition for suggesting a URL for a 404 at once
Classify(acc, result, suggestNow, map) ==
  LET rec == [url |-> result.url, status |-> result.status,
              redirectUrl |-> IF Truthy(result.redirectUrl)
                              THEN result.redirectUrl ELSE EmptyString,
              urlSuggested |-> EmptyString, redundantUrl |-> FALSE,
              targetUrl |-> EmptyString]
  IN IF IsSuccess(result.status)
     THEN [acc EXCEPT !.validUrls = Append(@, result.url),
                      !.successCount = @ + 1,
                      !.results = Append(@, rec)]
     ELSE IF IsRedirect(result)
     THEN LET hit == RedundancyLookup(map, normalizeUrl(result.redirectUrl, result.url))
          IN [acc EXCEPT !.redirectCount = @ + 1,
                         !.redundantCount = IF hit.found THEN @ + 1 ELSE @,
                         !.results = Append(@, [rec EXCEPT
                                        !.urlSuggested = result.redirectUrl,
                                        !.redundantUrl = hit.found,
                                        !.targetUrl = hit.target])]
     ELSE IF result.status = 404
     THEN [acc EXCEPT !.errorCount = @ + 1,
                      !.results = Append(@, [rec EXCEPT !.urlSuggested =
                                     IF suggestNow
                                     THEN findSimilarUrl(result.url, acc.validUrls)
                                     ELSE EmptyString])]
     ELSE [acc EXCEPT !.errorCount = @ + 1, !.results = Append(@, rec)]

\* mutant of SecondPass: every record that is not a success and has no
\* suggestion gets one
SecondPassAnyError(recs, validUrls) ==
  [k \in 1..Len(recs) |->
     IF recs[k].status # 200 /\ ~Truthy(recs[k].urlSuggested) /\ Len(validUrls) > 0
     THEN [recs[k] EXCEPT !.urlSuggested = findSimilarUrl(recs[k].url, validUrls)]
     ELSE recs[k]]

\* the second pass: a 404 record without suggestion gets one when a valid URL exists
SecondPass(recs, validUrls) ==
  [k \in 1..Len(recs) |->
     IF recs[k].status = 404 /\ ~Truthy(recs[k].urlSuggested) /\ Len(validUrls) > 0
     THEN [recs[k] EXCEPT !.urlSuggested = findSimilarUrl(recs[k].url, validUrls)]
     ELSE recs[k]]

\* the summary rows of the report, which are also the value processSitemap returns
SummaryOf(acc) ==
  [totalUrls |-> Len(acc.results), successCount |-> acc.successCount,
   redirectCount |-> acc.redirectCount, errorCount |-> acc.errorCount,
   redundantCount |-> acc.redundantCount]

NoReport == [written |-> FALSE, rows |-> <<>>, summary |-> SummaryOf(EmptyAcc)]

(***************************************************************************)
(* soft404.js 1-626: the soft-404 detector.  A text is a sequence of words *)
(* and a phrase occurs in it when its words occur in it contiguously; a    *)
(* URL path is a sequence of characters.                                   *)
(***************************************************************************)
\* String.prototype.toLowerCase on one word or character
Lower(w) ==
  CASE w = "Page" -> "page"
    [] w = "PAGE" -> "page"
    [] w = "Not" -> "not"
    [] w = "NOT" -> "not"
    [] w = "Found" -> "found"
    [] w = "FOUND" -> "found"
    [] w = "No" -> "no"
    [] w = "Results" -> "results"
    [] w = "Unavailable" -> "unavailable"
    [] w = "D" -> "d"
    [] OTHER -> w
toLowerCase(text) == [k \in 1..Len(text) |-> Lower(text[k])]

\* SOFT_404_INDICATORS.strong
STRONG_INDICATORS ==
  <<
    <<"404", "not", "found">>,
    <<"page", "not", "found">>,
    <<"page", "cannot", "be", "found">>,
    <<"page", "does", "not", "exist">>,
    <<"page", "no", "longer", "exists">>,
    <<"content", "not", "found">>,
    <<"content", "unavailable">>,
    <<"no", "longer", "available">>,
    <<"no", "results", "found">>,
    <<"no", "matching", "results">>,
    <<"error", "404">>,
    <<"page", "introuvable">>,
    <<"seite", "nicht", "gefunden">>,
    <<"pagina", "non", "trovata">>,
    <<"página", "no", "encontrada">>
  >>

\* SOFT_404_INDICATORS.weak
WEAK_INDICATORS ==
  <<
    <<"not", "found">>,
    <<"no", "results">>,
    <<"sorry", "we", "couldn't", "find">>,
    <<"we", "apologize">>,
    <<"unavailable">>,
    <<"introuvable">>,
    <<"nicht", "gefunden">>
  >>

\* FALSE_POSITIVE_TERMS, each a sequence of characters
FALSE_POSITIVE_TERMS ==
  <<
    <<"d", "e", "m", "o">>,
    <<"e", "b", "o", "o", "k">>,
    <<"g", "u", "i", "d", "e">>,
    <<"d", "o", "w", "n", "l", "o", "a", "d">>,
    <<"r", "e", "s", "o", "u", "r", "c", "e">>,
    <<"w", "e", "b", "i", "n", "a", "r">>,
    <<"c", "o", "n", "t", "a", "c", "t">>,
    <<"f", "o", "r", "m">>,
    <<"s", "i", "g", "n", "u", "p">>,
    <<"s", "i", "g", "n", " ", "u", "p">>,
    <<"r", "e", "g", "i", "s", "t", "e", "r">>,
    <<"l", "o", "g", "i", "n">>,
    <<"l", "o", "g", " ", "i", "n">>,
    <<"t", "r", "i", "a", "l">>,
    <<"f", "r", "e", "e", " ", "t", "r", "i", "a", "l">>,
    <<"p", "r", "i", "c", "i", "n", "g">>,
    <<"a", "b", "o", "u", "t">>,
    <<"f", "e", "a", "t", "u", "r", "e", "s">>,
    <<"p", "r", "o", "d", "u", "c", "t">>
  >>

RECURSIVE JoinWith(_, _)
\* parts.join(sep) on sequences of characters
JoinWith(parts, sep) ==
  IF parts = <<>> THEN <<>>
  ELSE IF Len(parts) = 1 THEN parts[1]
  ELSE parts[1] \o <<sep>> \o JoinWith(Tail(parts), sep)

\* urlObj.pathname as characters: '/' + the segments joined by '/' (+ '/'),
\* each segment being its keywords joined by '-'
PathChars(u) ==
  LET p == Pathname(u)
      segs == [k \in 1..Len(p.segs) |-> JoinWith(p.segs[k], "-")]
  IN <<"/">> \o JoinWith(segs, "/") \o (IF p.slash /\ p.segs # <<>> THEN <<"/">> ELSE <<>>)

\* path.endsWith(suffix)
EndsWith(str, suffix) ==
  Len(str) >= Len(suffix) /\ SubSeq(str, Len(str) - Len(suffix) + 1, Len(str)) = suffix

\* isLikelyLegitPage, for a URL that parses (new URL(url) throws otherwise)
isLikelyLegitPage(url) ==
  LET path == toLowerCase(PathChars(url))
  IN \/ \E t \in 1..Len(FALSE_POSITIVE_TERMS) : Includes(path, FALSE_POSITIVE_TERMS[t])
     \/ EndsWith(path, <<".", "p", "d", "f">>)
     \/ EndsWith(path, <<".", "h", "t", "m", "l">>)
     \/ Includes(path, <<"/", "b", "l", "o", "g", "/">>)
     \/ Includes(path, <<"/", "a", "r", "t", "i", "c", "l", "e", "/">>)
     \/ Includes(path, <<"/", "p", "r", "o", "d", "u", "c", "t", "/">>)
     \/ Includes(path, <<"/", "c", "a", "t", "e", "g", "o", "r", "y", "/">>)

\* the body-text length below which a page has minimal content
MINIMAL_CONTENT_LENGTH == 1000

\* what cheerio finds in a page: the text of its title, h1 and body
\* elements, the content of its description meta tag, the length of the body
\* text in characters, and which of these elements it has:
\*   "form"          a form
\*   "searchInForm"  an input of type search inside a form
\*   "textInForm"    an input of type text inside a form
\*   "textInput"     an input of type text or email, or a textarea, outside a form
\*   "button"        a button or an input of type submit or button
\*   "img404"        an image whose src and alt name 404, or a not-found error
PageOf(title, h1, meta, body, bodyLength, elements) ==
  [title |-> title, h1 |-> h1, meta |-> meta, body |-> body,
   bodyLength |-> bodyLength, elements |-> elements]

\* the html argument: '' (falsy), or the markup of a page
NoHtml == [empty |-> TRUE, page |-> PageOf(<<>>, <<>>, <<>>, <<>>, 0, {})]
Html(page) == [empty |-> FALSE, page |-> page]

\* what checkForSoft404 does: it returns a result, or throws; the status
\* text "Hard error: HTTP" is followed, in the script, by the httpStatus
Soft404Result(isSoft404, httpStatus, indicators, status) ==
  [threw |-> FALSE, isSoft404 |-> isSoft404, httpStatus |-> httpStatus,
   indicators |-> indicators, status |-> status]
Soft404Throws(httpStatus) ==
  [threw |-> TRUE, isSoft404 |-> FALSE, httpStatus |-> httpStatus,
   indicators |-> <<>>, status |-> "TypeError: Invalid URL"]

\* the indicators of a list that occur in the title, the h1 text or the
\* meta description, all lowercased
IndicatorsIn(list, page) ==
  LET pageTitle == toLowerCase(page.title)
      h1Text == toLowerCase(page.h1)
      metaDescriptionLower == toLowerCase(page.meta)
      Occurs(indicator) ==
        \/ Includes(pageTitle, indicator)
        \/ Includes(h1Text, indicator)
        \/ Includes(metaDescriptionLower, indicator)
  IN SelectSeq(list, Occurs)

\* mutant of IsEligibleStatus: every status below 300 is eligible
IsEligibleStatus2xx(httpStatus) == httpStatus >= 200 /\ httpStatus < 300

\* httpStatus === 200 (the negation of the test of soft404.js 249)
IsEligibleStatus(httpStatus) == httpStatus = 200

\* mutant of StrongVerdict: strong indicators do not decide on a page whose
\* URL path looks legitimate
StrongVerdictUnlessLegit(strongIndicators, isLegitPage) ==
  Len(strongIndicators) > 0 /\ ~isLegitPage

\* if (strongIndicators.length > 0): the page is definitely a soft 404
StrongVerdict(strongIndicators, isLegitPage) == Len(strongIndicators) > 0

\* mutant of RequiredIndicators: two weak indicators are enough on every path
RequiredIndicatorsAlwaysTwo(isLegitPage) == 2

\* soft404.js 341 and 346: at least 2 weak indicators, at least 3 when the
\* URL path looks legitimate
RequiredIndicators(isLegitPage) == IF isLegitPage THEN 3 ELSE 2

checkForSoft404(html, url, httpStatus) ==
  IF html.empty
  THEN Soft404Result(FALSE, httpStatus, <<>>, "Error: No HTML content")
  ELSE IF ~Parses(url) THEN Soft404Throws(httpStatus)
  ELSE IF ~IsEligibleStatus(httpStatus)
  THEN Soft404Result(FALSE, httpStatus, <<>>, "Hard error: HTTP")
  ELSE
    LET page == html.page
        isLegitPage == isLikelyLegitPage(url)
        strongIndicators == IndicatorsIn(STRONG_INDICATORS, page)
        weakIndicators == IndicatorsIn(WEAK_INDICATORS, page)
        bodyText == toLowerCase(page.body)
        hasMinimalContent == page.bodyLength < MINIMAL_CONTENT_LENGTH
        hasSearchForm == "searchInForm" \in page.elements \/ "textInForm" \in page.elements
        hasNoResults ==
          \/ Includes(bodyText, <<"no", "results">>)
          \/ Includes(bodyText, <<"no", "matches">>)
          \/ Includes(bodyText, <<"nothing", "found">>)
        has404Image == "img404" \in page.elements
        hasForm == "form" \in page.elements
        hasInputFields == "textInForm" \in page.elements \/ "textInput" \in page.elements
        hasButtons == "button" \in page.elements
        additionalIndicators ==
          (IF hasMinimalContent /\ ~hasForm /\ ~hasInputFields
           THEN <<<<"minimal content without interaction">>>> ELSE <<>>)
            \o (IF hasSearchForm /\ hasNoResults
                THEN <<<<"search with no results">>>> ELSE <<>>)
            \o (IF has404Image THEN <<<<"404 image">>>> ELSE <<>>)
        allWeakIndicators == weakIndicators \o additionalIndicators
        byCount ==
          IF isLegitPage /\ (hasForm \/ hasInputFields \/ hasButtons)
          THEN FALSE
          ELSE Len(allWeakIndicators) >= RequiredIndicators(isLegitPage)
        isSoft404 ==
          IF /\ Len(allWeakIndicators) = 1
             /\ allWeakIndicators[1] = <<"404 image">>
             /\ (hasForm \/ hasInputFields \/ hasButtons \/ isLegitPage)
          THEN FALSE
          ELSE byCount
    IN IF StrongVerdict(strongIndicators, isLegitPage)
       THEN Soft404Result(TRUE, httpStatus, strongIndicators,
                          "Soft 404 detected (strong indicators)")
       ELSE Soft404Result(isSoft404, httpStatus, allWeakIndicators,
                          IF isSoft404
                          THEN "Soft 404 detected (multiple weak indicators)"
                          ELSE "OK")

(***************************************************************************)
(* State.                                                                  *)
(***************************************************************************)
VARIABLES
  \* a leaf scan (processSitemap on a sitemap of type 'sitemap')
  rawUrls,           \* sitemapData.urls, as parsed
  urls,              \* the de-duplicated inventory
  normalizedUrlMap,  \* normalised URL -> inventory URL
  acc,               \* results, validUrls and the four counters
  i,                 \* the index of the sequential loop
  leafPc,            \* "parsed", "probing", "done"
  report,            \* the CSV file written and the summary returned
  served,            \* what the server answered to the probe of each URL
  duplicates,        \* the duplicates file of the rate-limited scan
  \* runWithConcurrency
  limit,             \* its concurrency limit
  index,             \* the shared cursor: the next task to claim
  completed,         \* the number of settled tasks
  allResults,        \* the result array, one slot per task
  workers,           \* each worker's position and the task it awaits
  startLog,          \* the tasks started, in start order
  settleLog,         \* the tasks settled, in settle order
  outcomes,          \* how each task settled
  \* one call of the rate-limited checkUrlStatus
  probeUrl,          \* the URL probed
  attempt,           \* the attempt parameter of the current invocation
  probePc,           \* "delay", "head", "get", "returned"
  requests,          \* the requests sent and the server's answer to each
  sleeps,            \* the sleep(ms) calls made
  probeResult,       \* the value returned
  \* a run of main over the configured sitemaps
  world,             \* the document the server holds for each sitemap URL
  stack,             \* the processSitemap calls in progress, innermost last
  rootResults,       \* what processSitemap returned for each root so far
  overall,           \* main's running totals
  runPc,             \* "main", "done"
  indexLog,          \* the sitemap indexes resolved, with their children's results
  reportLog,         \* the leaf sitemaps whose report was written, in order
  \* calls of findSimilarUrl
  brokenUrls,        \* the URLs a suggestion is asked for, in turn
  knownGood,         \* the known-good list given with each of them
  suggestions,       \* what findSimilarUrl returned for each so far
  \* one iteration of the soft-404 scan of a leaf
  softUrl,           \* the URL of the iteration
  softAnswer,        \* what the server does with the GET of the page
  softFetched,       \* what fetchPageContent returned
  softResult,        \* what checkForSoft404 returned
  softCounts,        \* okCount, soft404Count and errorCount
  softPc,            \* "fetch", "check", "counted", "rejected"
  \* the HTTP requests of the tools
  wire,              \* the requests sent, each with its eds_process header
  \* recheck_urls.js on a report file
  reportFile,        \* the report: its header line and its lines
  listed,            \* urls, the first column of the rows kept
  rechecked,         \* results
  recheckCounts,     \* successCount, redirectCount, errorCount, redundantCount
  recheckPc          \* "read", "probing", "done"

leafVars == <<rawUrls, urls, normalizedUrlMap, acc, i, leafPc, report, served>>
poolVars ==
  <<duplicates, limit, index, completed, allResults, workers, startLog, settleLog, outcomes>>

probeVars == <<probeUrl, attempt, probePc, requests, sleeps, probeResult>>

treeVars == <<world, stack, rootResults, overall, runPc, indexLog, reportLog>>

suggestVars == <<brokenUrls, knownGood, suggestions>>

softVars == <<softUrl, softAnswer, softFetched, softResult, softCounts, softPc>>

headerVars == <<wire>>

recheckVars == <<reportFile, listed, rechecked, recheckCounts, recheckPc>>

vars == <<leafVars, poolVars, probeVars, treeVars, suggestVars, softVars, headerVars, recheckVars>>

\* the variables of the soft-404 scan while none is followed
SoftIdle ==
  /\ softUrl = Undefined
  /\ softAnswer = [responded |-> FALSE, status |-> NetworkError, data |-> NoHtml]
  /\ softFetched = [content |-> NoHtml, status |-> NetworkError]
  /\ softResult = Soft404Result(FALSE, NetworkError, <<>>, "")
  /\ softCounts = [okCount |-> 0, soft404Count |-> 0, errorCount |-> 0]
  /\ softPc = "idle"

\* the variables of the HTTP requests while none is followed
HeaderIdle == wire = <<>>

\* the variables of recheck_urls.js while no recheck is followed
RecheckIdle ==
  /\ reportFile = <<>>
  /\ listed = <<>>
  /\ rechecked = <<>>
  /\ recheckCounts = [successCount |-> 0, redirectCount |-> 0, errorCount |-> 0, redundantCount |-> 0]
  /\ recheckPc = "idle"

\* the variables of the calls of findSimilarUrl while none is followed
SuggestIdle ==
  /\ brokenUrls = <<>>
  /\ knownGood = <<>>
  /\ suggestions = <<>>

\* the variables of main while no run is followed
TreeIdle ==
  /\ world = <<>>
  /\ stack = <<>>
  /\ rootResults = <<>>
  /\ overall = SummaryOf(EmptyAcc)
  /\ runPc = "idle"
  /\ indexLog = <<>>
  /\ reportLog = <<>>

\* the variables of checkUrlStatus while no probe is followed
ProbeIdle ==
  /\ probeUrl = Undefined
  /\ attempt = 1
  /\ probePc = "idle"
  /\ requests = <<>>
  /\ sleeps = <<>>
  /\ probeResult = ErrorResult(Undefined, NoResponse)

\* the variables of runWithConcurrency while no batch runs
PoolIdle ==
  /\ duplicates = [written |-> FALSE, rows |-> <<>>]
  /\ limit = CONCURRENCY_LIMIT
  /\ index = 0
  /\ completed = 0
  /\ allResults = <<>>
  /\ workers = <<>>
  /\ startLog = <<>>
  /\ settleLog = <<>>
  /\ outcomes = <<>>

(***************************************************************************)
(* sitemap.js: the sequential scan of one leaf sitemap.                    *)
(***************************************************************************)
\* the <loc> values a leaf may list
InventoryUrls == {U_blog, U_blogSlash, U_post, U_ext}

\* what a server may do with the GET of a probe
LeafAnswers ==
  {Answer(200, Undefined), Answer(204, Undefined), Answer(404, Undefined),
   Answer(500, Undefined), NoResponse,
   Answer(301, U_blog), Answer(301, U_blogSlash), Answer(301, R_blog),
   Answer(301, U_ext), Answer(301, Undefined), Answer(302, U_blogQuery),
   Answer(307, U_blog)}

RawLists(S, n) == UNION {[1..m -> S] : m \in 1..n}

InitLeaf ==
  /\ rawUrls \in RawLists(InventoryUrls, MaxUrls)
  /\ urls = <<>>
  /\ normalizedUrlMap = <<>>
  /\ acc = EmptyAcc
  /\ i = 0
  /\ leafPc = "parsed"
  /\ report = NoReport
  /\ served = <<>>
  /\ PoolIdle
  /\ ProbeIdle
  /\ TreeIdle
  /\ SuggestIdle
  /\ SoftIdle
  /\ HeaderIdle
  /\ RecheckIdle

\* sitemap.js 308-324: the inventory and its normalised map
LeafBegin ==
  /\ leafPc = "parsed"
  /\ urls' = Dedupe(rawUrls, <<>>)
  /\ normalizedUrlMap' = BuildNormalizedUrlMap(urls', SitemapUrlA, <<>>)
  /\ acc' = EmptyAcc
  /\ i' = 0
  /\ leafPc' = "probing"
  /\ UNCHANGED <<rawUrls, report, served, poolVars, probeVars, treeVars, suggestVars, softVars, headerVars, recheckVars>>

\* sitemap.js 379: suggest at once only in the second half of the inventory
SuggestNowSequential(k, n, validUrls) == 2 * k > n /\ Len(validUrls) > 0

\* sitemap.js 327-400: one iteration, the probe of urls[i] and its classification
LeafProbe(answer) ==
  /\ leafPc = "probing"
  /\ i < Len(urls)
  /\ LET url == urls[i + 1]
         result == checkUrlStatus(url, answer)
     IN acc' = Classify(acc, result,
                        SuggestNowSequential(i, Len(urls), acc.validUrls),
                        normalizedUrlMap)
  /\ i' = i + 1
  /\ served' = Append(served, answer)
  /\ UNCHANGED <<rawUrls, urls, normalizedUrlMap, leafPc, report, poolVars, probeVars, treeVars, suggestVars, softVars, headerVars, recheckVars>>

\* sitemap.js 402-471: the second pass, the report file and the returned summary
LeafFinish ==
  /\ leafPc = "probing"
  /\ i = Len(urls)
  /\ acc' = [acc EXCEPT !.results = SecondPass(acc.results, acc.validUrls)]
  /\ report' = [written |-> TRUE, rows |-> acc'.results, summary |-> SummaryOf(acc')]
  /\ leafPc' = "done"
  /\ UNCHANGED <<rawUrls, urls, normalizedUrlMap, i, served, poolVars, probeVars, treeVars, suggestVars, softVars, headerVars, recheckVars>>

NextLeaf ==
  \/ LeafBegin
  \/ \E answer \in LeafAnswers : LeafProbe(answer)
  \/ LeafFinish

SpecLeaf == InitLeaf /\ [][NextLeaf]_vars

(***************************************************************************)
(* soft404.js 913-1134: the rate-limited scan of one leaf sitemap, its     *)
(* probes run by runWithConcurrency.                                       *)
(***************************************************************************)
\* the k-th page of the batch: /posts, /blog/old-post, /blog (the parent of the
\* second page, listed after it), then /blog/x...x (k times "x")
PageUrl(k) ==
  CASE k = 1 -> U_posts
    [] k = 2 -> U_post
    [] k = 3 -> U_blog
    [] OTHER -> AbsUrl(OriginA, <<S_blog, <<[j \in 1..k |-> "x"]>>>>, FALSE, FALSE)

\* what a server may answer to the HEAD of a probe of the batch
PoolAnswers == {Answer(200, Undefined), Answer(404, Undefined), Answer(301, PageUrl(1))}

\* how a task may settle: with the value checkUrlStatus returns for the
\* server's answer, or by throwing
TaskOutcomes(url) ==
  {[threw |-> FALSE, value |-> ResultOf(url, answer)] : answer \in PoolAnswers}
    \cup {[threw |-> TRUE, value |-> ErrorResult(url, NoResponse)]}

\* a task that has not settled
Pending == [state |-> "pending", value |-> ErrorResult(Undefined, NoResponse)]

\* a slot of the result array: never written, written with undefined, or
\* written with a task's value
Hole == [state |-> "hole", value |-> ErrorResult(Undefined, NoResponse)]
UndefinedSlot == [state |-> "undefined", value |-> ErrorResult(Undefined, NoResponse)]
ValueSlot(value) == [state |-> "value", value |-> value]

\* Object.entries(urlCount).filter(([_, count]) => count > 1)
CountIn(list, x) == Cardinality({k \in 1..Len(list) : list[k] = x})
DuplicatesOf(list) ==
  LET distinct == Dedupe(list, <<>>)
      IsRepeated(x) == CountIn(list, x) > 1
      repeated == SelectSeq(distinct, IsRepeated)
  IN [k \in 1..Len(repeated) |-> [url |-> repeated[k], count |-> CountIn(list, repeated[k])]]

\* mutant of detectAndWriteDuplicates: the duplicates are looked for in the
\* list after its de-duplication
detectAndWriteDuplicatesAfterDedupe(list) ==
  [written |-> DuplicatesOf(Dedupe(list, <<>>)) # <<>>,
   rows |-> DuplicatesOf(Dedupe(list, <<>>))]

\* detectAndWriteDuplicates: the file is written only when a URL repeats
detectAndWriteDuplicates(list) ==
  [written |-> DuplicatesOf(list) # <<>>, rows |-> DuplicatesOf(list)]

Min(a, b) == IF a < b THEN a ELSE b

\* mutant of NumWorkers: one worker per task, whatever the limit
NumWorkersUnbounded(lim, n) == n

\* Array(Math.min(limit, tasks.length)).fill(0).map(worker)
NumWorkers(lim, n) == Min(lim, n)

\* the raw <loc> lists of the batch: n distinct pages, the first one possibly
\* listed again, up to MaxRepeats times, at the end
PoolRawLists ==
  {[k \in 1..(n + r) |-> IF k <= n THEN PageUrl(k) ELSE PageUrl(1)] :
     n \in 1..MaxTasks, r \in 0..MaxRepeats}

InitPool ==
  /\ rawUrls \in PoolRawLists
  /\ urls = <<>>
  /\ normalizedUrlMap = <<>>
  /\ acc = EmptyAcc
  /\ i = 0
  /\ leafPc = "parsed"
  /\ report = NoReport
  /\ served = <<>>
  /\ duplicates = [written |-> FALSE, rows |-> <<>>]
  /\ limit \in 1..CONCURRENCY_LIMIT
  /\ index = 0
  /\ completed = 0
  /\ allResults = <<>>
  /\ workers = <<>>
  /\ startLog = <<>>
  /\ settleLog = <<>>
  /\ outcomes = <<>>
  /\ ProbeIdle
  /\ TreeIdle
  /\ SuggestIdle
  /\ SoftIdle
  /\ HeaderIdle
  /\ RecheckIdle

\* soft404.js 1004-1035 and 913-936: the inventory, the duplicates file, the
\* normalised map, and the start of the workers, each of which claims a task
\* (current = index++) and starts it before it first awaits
StatusLeafBegin ==
  /\ leafPc = "parsed"
  /\ urls' = Dedupe(rawUrls, <<>>)
  /\ duplicates' = detectAndWriteDuplicates(rawUrls)
  /\ normalizedUrlMap' = BuildNormalizedUrlMap(urls', SitemapUrlA, <<>>)
  /\ acc' = EmptyAcc
  /\ LET n == Len(urls')
         w == NumWorkers(limit, n)
     IN /\ allResults' = [k \in 1..n |-> Hole]
        /\ workers' = [k \in 1..w |-> [pc |-> "awaiting", current |-> k - 1]]
        /\ index' = w
        /\ startLog' = [k \in 1..w |-> k - 1]
        /\ outcomes' = [k \in 1..n |-> Pending]
  /\ completed' = 0
  /\ settleLog' = <<>>
  /\ leafPc' = "probing"
  /\ UNCHANGED <<rawUrls, i, report, served, limit, probeVars, treeVars, suggestVars, softVars, headerVars, recheckVars>>

\* mutant of PostIncrement: the cursor is read but not advanced
PostIncrementStale(n) == n

\* index++: the value the cursor takes when a worker claims a task
PostIncrement(n) == n + 1

\* mutant of ResultSlot: the slot is addressed by the shared cursor
ResultSlotByCursor(w) == index

\* results[current] = ...: the slot a worker writes is the one it claimed
ResultSlot(w) == workers[w].current

\* results[slot] = value, on a JavaScript array (a write past the end grows it)
ArrayStore(array, slot, value) ==
  [k \in 1..(IF slot + 1 > Len(array) THEN slot + 1 ELSE Len(array)) |->
     IF k = slot + 1 THEN value
     ELSE IF k <= Len(array) THEN array[k] ELSE Hole]

\* soft404.js 920-932: the task a worker awaits settles; the worker stores
\* the value (undefined when the task threw), counts it, and either claims
\* and starts the next task or leaves its loop
Settle(w, outcome) ==
  /\ leafPc = "probing"
  /\ w \in 1..Len(workers)
  /\ workers[w].pc = "awaiting"
  /\ outcome \in TaskOutcomes(urls[workers[w].current + 1])
  /\ allResults' = ArrayStore(allResults, ResultSlot(w),
                              IF outcome.threw THEN UndefinedSlot
                              ELSE ValueSlot(outcome.value))
  /\ outcomes' = [outcomes EXCEPT ![workers[w].current + 1] =
                     [state |-> IF outcome.threw THEN "threw" ELSE "returned",
                      value |-> outcome.value]]
  /\ settleLog' = Append(settleLog, workers[w].current)
  /\ completed' = completed + 1
  /\ IF index < Len(urls)
     THEN /\ workers' = [workers EXCEPT ![w] = [pc |-> "awaiting", current |-> index]]
          /\ startLog' = Append(startLog, index)
          /\ index' = PostIncrement(index)
     ELSE /\ workers' = [workers EXCEPT ![w] = [pc |-> "finished", current |-> @.current]]
          /\ UNCHANGED <<startLog, index>>
  /\ UNCHANGED <<rawUrls, urls, normalizedUrlMap, acc, i, leafPc, report, served,
                 duplicates, limit, probeVars, treeVars, suggestVars, softVars, headerVars, recheckVars>>

RECURSIVE ProcessResults(_, _, _, _)
\* soft404.js 1038-1074: the loop over allResults; destructuring a slot that
\* holds no object throws a TypeError, which ends the loop and the scan
ProcessResults(a, slots, k, map) ==
  IF k > Len(slots) THEN [ok |-> TRUE, acc |-> a]
  ELSE IF slots[k].state # "value" THEN [ok |-> FALSE, acc |-> a]
  ELSE ProcessResults(Classify(a, slots[k].value, Len(a.validUrls) > 0, map),
                      slots, k + 1, map)

\* soft404.js 936-937 and 1037-1134: Promise.all resolves once every worker
\* left its loop; the scan then classifies the results, makes the second
\* pass, writes the report and returns the summary, or is rejected
StatusLeafFinish ==
  /\ leafPc = "probing"
  /\ Len(allResults) > 0
  /\ \A w \in 1..Len(workers) : workers[w].pc = "finished"
  /\ LET processed == ProcessResults(EmptyAcc, allResults, 1, normalizedUrlMap)
     IN IF processed.ok
        THEN /\ acc' = [processed.acc EXCEPT
                          !.results = SecondPass(@, processed.acc.validUrls)]
             /\ report' = [written |-> TRUE, rows |-> acc'.results,
                           summary |-> SummaryOf(acc')]
             /\ leafPc' = "done"
        ELSE /\ acc' = processed.acc
             /\ report' = report
             /\ leafPc' = "rejected"
  /\ UNCHANGED <<rawUrls, urls, normalizedUrlMap, i, served, poolVars, probeVars, treeVars, suggestVars, softVars, headerVars, recheckVars>>

NextPool ==
  \/ StatusLeafBegin
  \/ \E w \in 1..Len(workers) :
       \E outcome \in TaskOutcomes(urls[workers[w].current + 1]) : Settle(w, outcome)
  \/ StatusLeafFinish

SpecPool == InitPool /\ [][NextPool]_vars

(***************************************************************************)
(* soft404.js 779-842: checkUrlStatus with HEAD, GET fallback and the      *)
(* retry of 429 errors.                                                    *)
(***************************************************************************)
ProbeUrls == {U_blog, U_post, U_ext}

\* what a server may do with one request of a probe
ProbeAnswers ==
  {Answer(200, Undefined), Answer(204, Undefined), Answer(301, U_blog),
   Answer(301, Undefined), Answer(307, U_blog), Answer(404, Undefined),
   Answer(429, Undefined), Answer(500, Undefined), Answer(503, Undefined),
   NoResponse}

InitProbe ==
  /\ probeUrl \in ProbeUrls
  /\ attempt = 1
  /\ probePc = "delay"
  /\ requests = <<>>
  /\ sleeps = <<>>
  /\ probeResult = ErrorResult(Undefined, NoResponse)
  /\ rawUrls = <<>>
  /\ urls = <<>>
  /\ normalizedUrlMap = <<>>
  /\ acc = EmptyAcc
  /\ i = 0
  /\ leafPc = "idle"
  /\ report = NoReport
  /\ served = <<>>
  /\ PoolIdle
  /\ TreeIdle
  /\ SuggestIdle
  /\ SoftIdle
  /\ HeaderIdle
  /\ RecheckIdle

\* soft404.js 782-784: if (attempt === 1) await sleep(REQUEST_DELAY)
ProbeDelay ==
  /\ probePc = "delay"
  /\ sleeps' = IF attempt = 1 THEN Append(sleeps, REQUEST_DELAY) ELSE sleeps
  /\ probePc' = "head"
  /\ UNCHANGED <<probeUrl, attempt, requests, probeResult, leafVars, poolVars, treeVars, suggestVars, softVars, headerVars, recheckVars>>

\* soft404.js 804-822: the HEAD request; validateStatus accepts status < 500.
\* A response is returned at once, a failure falls back to GET
ProbeHead(answer) ==
  /\ probePc = "head"
  /\ requests' = Append(requests, [method |-> "HEAD", answer |-> answer])
  /\ IF AxiosResolves(answer, 500)
     THEN /\ probeResult' = ResultOf(probeUrl, answer)
          /\ probePc' = "returned"
     ELSE /\ probePc' = "get"
          /\ UNCHANGED probeResult
  /\ UNCHANGED <<probeUrl, attempt, sleeps, leafVars, poolVars, treeVars, suggestVars, softVars, headerVars, recheckVars>>

\* mutant of ShouldRetry: every HTTP error is retried
ShouldRetryAnyStatus(error, att) == error.responded /\ att <= RETRY_ATTEMPTS

\* soft404.js 825: error.response && error.response.status === 429 &&
\* attempt <= RETRY_ATTEMPTS
ShouldRetry(error, att) ==
  error.responded /\ error.status = 429 /\ att <= RETRY_ATTEMPTS

\* soft404.js 826: RETRY_DELAY * Math.pow(2, attempt - 1)
RetryDelay(att) == RETRY_DELAY * 2 ^ (att - 1)

\* soft404.js 810-841: the GET fallback; its failure reaches the catch block,
\* which sleeps and calls checkUrlStatus(url, attempt + 1) for a retry, or
\* returns the error status
ProbeGet(answer) ==
  /\ probePc = "get"
  /\ requests' = Append(requests, [method |-> "GET", answer |-> answer])
  /\ IF AxiosResolves(answer, 500)
     THEN /\ probeResult' = ResultOf(probeUrl, answer)
          /\ probePc' = "returned"
          /\ UNCHANGED <<attempt, sleeps>>
     ELSE IF ShouldRetry(answer, attempt)
     THEN /\ sleeps' = Append(sleeps, RetryDelay(attempt))
          /\ attempt' = attempt + 1
          /\ probePc' = "delay"
          /\ UNCHANGED probeResult
     ELSE /\ probeResult' = ErrorResult(probeUrl, answer)
          /\ probePc' = "returned"
          /\ UNCHANGED <<attempt, sleeps>>
  /\ UNCHANGED <<probeUrl, leafVars, poolVars, treeVars, suggestVars, softVars, headerVars, recheckVars>>

NextProbe ==
  \/ ProbeDelay
  \/ \E answer \in ProbeAnswers : ProbeHead(answer)
  \/ \E answer \in ProbeAnswers : ProbeGet(answer)

SpecProbe == InitProbe /\ [][NextProbe]_vars

\* every request settles (by a response, a connection failure or the timeout
\* given to axios) and every sleep ends, so a call that can step does step
SpecProbeLive == InitProbe /\ [][NextProbe]_vars /\ WF_vars(NextProbe)

(***************************************************************************)
(* sitemap.js 264-306 and 474-493: main and the recursive resolution of    *)
(* sitemap indexes.  The scan of a leaf is taken as one step that writes   *)
(* the leaf's report and returns its summary.                              *)
(***************************************************************************)
SitemapNames == {"s1", "s2", "s3"}

\* sitemapconfig.js: the configured root sitemaps
sitemapUrls == <<"s1", "s2">>

\* the summaries a leaf scan may return
LeafSummaries ==
  {[totalUrls |-> 1, successCount |-> 1, redirectCount |-> 0, errorCount |-> 0,
    redundantCount |-> 0],
   [totalUrls |-> 3, successCount |-> 1, redirectCount |-> 1, errorCount |-> 1,
    redundantCount |-> 1]}

\* what the server may hold at a sitemap URL: nothing that can be fetched,
\* a body that is not XML, XML that is neither index nor urlset, a leaf, an index
Doc(kind, children, summary) == [kind |-> kind, children |-> children, summary |-> summary]
ChildLists == UNION {[1..m -> SitemapNames] : m \in 1..2}
Docs ==
  {Doc(k, <<>>, SummaryOf(EmptyAcc)) : k \in {"fetchError", "parseError", "invalidFormat"}}
    \cup {Doc("sitemap", <<>>, sm) : sm \in LeafSummaries}
    \cup {Doc("index", c, SummaryOf(EmptyAcc)) : c \in ChildLists}

\* the value of a processSitemap call: null, or a summary
Null == [isNull |-> TRUE, summary |-> SummaryOf(EmptyAcc)]
Value(summary) == [isNull |-> FALSE, summary |-> summary]

\* mutant of AddSummary: the redundant count of the result is not added
AddSummaryWithoutRedundant(a, b) ==
  [totalUrls |-> a.totalUrls + b.totalUrls,
   successCount |-> a.successCount + b.successCount,
   redirectCount |-> a.redirectCount + b.redirectCount,
   errorCount |-> a.errorCount + b.errorCount,
   redundantCount |-> a.redundantCount]

\* totalResults.x += result.x, field by field
AddSummary(a, b) ==
  [totalUrls |-> a.totalUrls + b.totalUrls,
   successCount |-> a.successCount + b.successCount,
   redirectCount |-> a.redirectCount + b.redirectCount,
   errorCount |-> a.errorCount + b.errorCount,
   redundantCount |-> a.redundantCount + b.redundantCount]

\* a call of processSitemap(url); reportsBefore is the number of leaf reports
\* written before the call
Frame(url) ==
  [url |-> url, pc |-> "fetch", children |-> <<>>, childResults |-> <<>>,
   totalResults |-> SummaryOf(EmptyAcc), reportsBefore |-> Len(reportLog)]

InitTree ==
  /\ world \in [SitemapNames -> Docs]
  /\ stack = <<>>
  /\ rootResults = <<>>
  /\ overall = SummaryOf(EmptyAcc)
  /\ runPc = "main"
  /\ indexLog = <<>>
  /\ reportLog = <<>>
  /\ rawUrls = <<>>
  /\ urls = <<>>
  /\ normalizedUrlMap = <<>>
  /\ acc = EmptyAcc
  /\ i = 0
  /\ leafPc = "idle"
  /\ report = NoReport
  /\ served = <<>>
  /\ PoolIdle
  /\ ProbeIdle
  /\ SuggestIdle
  /\ SoftIdle
  /\ HeaderIdle
  /\ RecheckIdle

\* mutant of AfterChild: a child without result ends the loop over the children
AfterChildAbortOnFailure(frame, result) ==
  [frame EXCEPT !.childResults = Append(@, result),
                !.children = IF result.isNull
                             THEN SubSeq(@, 1, Len(frame.childResults) + 1) ELSE @,
                !.totalResults = IF result.isNull THEN @ ELSE AddSummary(@, result.summary)]

\* sitemap.js 295-302: the index takes the child's result, adds it to its
\* totals when there is one, and goes on with the next child
AfterChild(frame, result) ==
  [frame EXCEPT !.childResults = Append(@, result),
                !.totalResults = IF result.isNull THEN @ ELSE AddSummary(@, result.summary)]

\* the innermost call returns result to its caller: an index (sitemap.js
\* 295-302) or main (sitemap.js 485-492)
Return(result) ==
  IF Len(stack) > 1
  THEN /\ stack' = [SubSeq(stack, 1, Len(stack) - 1) EXCEPT
                      ![Len(stack) - 1] = AfterChild(@, result)]
       /\ UNCHANGED <<rootResults, overall>>
  ELSE /\ stack' = <<>>
       /\ rootResults' = Append(rootResults, result)
       /\ overall' = IF result.isNull THEN overall ELSE AddSummary(overall, result.summary)

Top == stack[Len(stack)]

\* sitemap.js 484-485: main calls processSitemap for the next configured sitemap
MainCall ==
  /\ runPc = "main"
  /\ stack = <<>>
  /\ Len(rootResults) < Len(sitemapUrls)
  /\ stack' = <<Frame(sitemapUrls[Len(rootResults) + 1])>>
  /\ UNCHANGED <<world, rootResults, overall, runPc, indexLog, reportLog,
                 leafVars, poolVars, probeVars, suggestVars, softVars, headerVars, recheckVars>>

\* sitemap.js 495-523: after the last sitemap main prints the overall summary
MainDone ==
  /\ runPc = "main"
  /\ stack = <<>>
  /\ Len(rootResults) = Len(sitemapUrls)
  /\ runPc' = "done"
  /\ UNCHANGED <<world, stack, rootResults, overall, indexLog, reportLog,
                 leafVars, poolVars, probeVars, suggestVars, softVars, headerVars, recheckVars>>

\* sitemap.js 267-271: fetchXml returns null on any failure, and the call
\* returns null
Fetch ==
  /\ stack # <<>>
  /\ Top.pc = "fetch"
  /\ IF world[Top.url].kind = "fetchError"
     THEN Return(Null)
     ELSE /\ stack' = [stack EXCEPT ![Len(stack)].pc = "parse"]
          /\ UNCHANGED <<rootResults, overall>>
  /\ UNCHANGED <<world, runPc, indexLog, reportLog, leafVars, poolVars, probeVars, suggestVars, softVars, headerVars, recheckVars>>

\* sitemap.js 273-282 and 124-148: getSitemapsOrUrls throws on a body that
\* does not parse or has neither shape, and the call returns null
Parse ==
  /\ stack # <<>>
  /\ Top.pc = "parse"
  /\ LET doc == world[Top.url]
     IN IF doc.kind \in {"parseError", "invalidFormat"}
        THEN Return(Null)
        ELSE /\ stack' = [stack EXCEPT
                            ![Len(stack)].pc = IF doc.kind = "index" THEN "children" ELSE "scan",
                            ![Len(stack)].children = doc.children]
             /\ UNCHANGED <<rootResults, overall>>
  /\ UNCHANGED <<world, runPc, indexLog, reportLog, leafVars, poolVars, probeVars, suggestVars, softVars, headerVars, recheckVars>>

\* sitemap.js 294-295: the index calls processSitemap for its next child
ChildCall ==
  /\ stack # <<>>
  /\ Top.pc = "children"
  /\ Len(Top.childResults) < Len(Top.children)
  /\ Len(stack) < MaxDepth
  /\ stack' = Append(stack, Frame(Top.children[Len(Top.childResults) + 1]))
  /\ UNCHANGED <<world, rootResults, overall, runPc, indexLog, reportLog,
                 leafVars, poolVars, probeVars, suggestVars, softVars, headerVars, recheckVars>>

\* sitemap.js 305: after its last child the index returns its totals
IndexReturn ==
  /\ stack # <<>>
  /\ Top.pc = "children"
  /\ Len(Top.childResults) = Len(Top.children)
  /\ indexLog' = Append(indexLog, [url |-> Top.url, childResults |-> Top.childResults,
                                   totalResults |-> Top.totalResults,
                                   reportsBefore |-> Top.reportsBefore,
                                   reportsAfter |-> Len(reportLog)])
  /\ Return(Value(Top.totalResults))
  /\ UNCHANGED <<world, runPc, reportLog, leafVars, poolVars, probeVars, suggestVars, softVars, headerVars, recheckVars>>

\* mutant of WriteLeafReport: the leaf returns without writing its report
WriteLeafReportSkipped(log, url) == log

\* sitemap.js 444-451: fs.writeFileSync(filename, ...) of the leaf's report
WriteLeafReport(log, url) == Append(log, url)

\* sitemap.js 308-471: the scan of a leaf writes its report and returns its summary
LeafScan ==
  /\ stack # <<>>
  /\ Top.pc = "scan"
  /\ reportLog' = WriteLeafReport(reportLog, Top.url)
  /\ Return(Value(world[Top.url].summary))
  /\ UNCHANGED <<world, runPc, indexLog, leafVars, poolVars, probeVars, suggestVars, softVars, headerVars, recheckVars>>

NextTree ==
  \/ MainCall
  \/ MainDone
  \/ Fetch
  \/ Parse
  \/ ChildCall
  \/ IndexReturn
  \/ LeafScan

SpecTree == InitTree /\ [][NextTree]_vars

(***************************************************************************)
(* sitemap.js 13-76: findSimilarUrl, called for each of a list of URLs     *)
(* with one known-good list.                                               *)
(***************************************************************************)
\* the URLs a suggestion may be asked for
BrokenUrls == {U_post, U_deep, U_old, U_blogSlash, BadUrl, R_blog}

\* the URLs a known-good list may hold
GoodUrls == {U_blog, U_post, U_posts, U_rootSlash, U_ext, U_auPost}

InitSuggest ==
  /\ brokenUrls \in UNION {[1..m -> BrokenUrls] : m \in 1..MaxBroken}
  /\ knownGood \in UNION {[1..m -> GoodUrls] : m \in 0..MaxGood}
  /\ suggestions = <<>>
  /\ rawUrls = <<>>
  /\ urls = <<>>
  /\ normalizedUrlMap = <<>>
  /\ acc = EmptyAcc
  /\ i = 0
  /\ leafPc = "idle"
  /\ report = NoReport
  /\ served = <<>>
  /\ PoolIdle
  /\ ProbeIdle
  /\ TreeIdle
  /\ SoftIdle
  /\ HeaderIdle
  /\ RecheckIdle

\* one call: findSimilarUrl(brokenUrls[k], knownGood) for the next k
Suggest ==
  /\ Len(suggestions) < Len(brokenUrls)
  /\ suggestions' =
       Append(suggestions, findSimilarUrl(brokenUrls[Len(suggestions) + 1], knownGood))
  /\ UNCHANGED <<brokenUrls, knownGood, leafVars, poolVars, probeVars, treeVars, softVars, headerVars, recheckVars>>

NextSuggest == Suggest

SpecSuggest == InitSuggest /\ [][NextSuggest]_vars

(***************************************************************************)
(* soft404.js 156-257 and 509-535: one iteration of the soft-404 scan of   *)
(* a leaf: fetchPageContent, checkForSoft404, and the counters.            *)
(***************************************************************************)
\* the URLs a leaf may list: /blog and /blog/old-post, /Demo, and a string
\* that is not a URL
SoftUrls == {U_blog, U_post, U_demo, BadUrl}

Titles == {<<>>, <<"Page", "Not", "Found">>, <<"Not", "Found">>}
H1s == {<<>>, <<"Unavailable">>}
Metas == {<<>>, <<"no", "results", "found">>}
Bodies == {<<>>, <<"No", "Results">>}
BodyLengths == {MINIMAL_CONTENT_LENGTH - 1, MINIMAL_CONTENT_LENGTH}
\* an input inside a form comes with its form
ElementSets ==
  {e \in SUBSET {"form", "searchInForm", "textInForm", "textInput", "button", "img404"} :
     ("searchInForm" \in e \/ "textInForm" \in e) => "form" \in e}
Pages ==
  {PageOf(t, h, m, b, n, e) :
     t \in Titles, h \in H1s, m \in Metas, b \in Bodies, n \in BodyLengths, e \in ElementSets}

\* what a server may do with the GET of a page: no response, or a status
\* with a body that is empty or a page; a string that is not a URL reaches
\* no server
SoftAnswers(url) ==
  {[responded |-> FALSE, status |-> NetworkError, data |-> NoHtml]}
    \cup (IF Parses(url)
          THEN {[responded |-> TRUE, status |-> st, data |-> d] :
                  st \in {200, 204, 404}, d \in {NoHtml} \cup {Html(p) : p \in Pages}}
          ELSE {})

\* fetchPageContent: the body and status of the response, of a success as of
\* an HTTP error; '' and 'Network Error' without response
fetchPageContent(answer) ==
  IF AxiosResolves(answer, 300) THEN [content |-> answer.data, status |-> answer.status]
  ELSE IF answer.responded THEN [content |-> answer.data, status |-> answer.status]
  ELSE [content |-> NoHtml, status |-> NetworkError]

InitSoft404 ==
  /\ softUrl \in SoftUrls
  /\ softAnswer \in SoftAnswers(softUrl)
  /\ softFetched = [content |-> NoHtml, status |-> NetworkError]
  /\ softResult = Soft404Result(FALSE, NetworkError, <<>>, "")
  /\ softCounts = [okCount |-> 0, soft404Count |-> 0, errorCount |-> 0]
  /\ softPc = "fetch"
  /\ rawUrls = <<>>
  /\ urls = <<>>
  /\ normalizedUrlMap = <<>>
  /\ acc = EmptyAcc
  /\ i = 0
  /\ leafPc = "idle"
  /\ report = NoReport
  /\ served = <<>>
  /\ PoolIdle
  /\ ProbeIdle
  /\ TreeIdle
  /\ SuggestIdle
  /\ HeaderIdle
  /\ RecheckIdle

\* soft404.js 514: const { content, status } = await fetchPageContent(url)
FetchPage ==
  /\ softPc = "fetch"
  /\ softFetched' = fetchPageContent(softAnswer)
  /\ softPc' = "check"
  /\ UNCHANGED <<softUrl, softAnswer, softResult, softCounts,
                 leafVars, poolVars, probeVars, treeVars, suggestVars, headerVars, recheckVars>>

\* soft404.js 515-535: checkForSoft404 and the counters; an exception of
\* checkForSoft404 is not caught and rejects the scan
CheckPage ==
  /\ softPc = "check"
  /\ softResult' = checkForSoft404(softFetched.content, softUrl, softFetched.status)
  /\ IF softResult'.threw
     THEN /\ softPc' = "rejected"
          /\ UNCHANGED softCounts
     ELSE /\ softPc' = "counted"
          /\ softCounts' =
               IF softResult'.isSoft404
               THEN [softCounts EXCEPT !.soft404Count = @ + 1]
               ELSE IF softResult'.httpStatus = 200
               THEN [softCounts EXCEPT !.okCount = @ + 1]
               ELSE [softCounts EXCEPT !.errorCount = @ + 1]
  /\ UNCHANGED <<softUrl, softAnswer, softFetched,
                 leafVars, poolVars, probeVars, treeVars, suggestVars, headerVars, recheckVars>>

NextSoft404 ==
  \/ FetchPage
  \/ CheckPage

SpecSoft404 == InitSoft404 /\ [][NextSoft404]_vars

(***************************************************************************)
(* The HTTP requests of the tools and their eds_process header:            *)
(* sitemap.js 79-109 and 151-171, recheck_urls.js 7-31, soft404.js 9-11,   *)
(* 68-91, 156-175, 718-737 and 779-811.                                    *)
(***************************************************************************)
\* the most requests followed
MaxRequests == 2

\* https://www.wilson.com
OriginW == <<"https://www.", "wilson.com">>
\* the path segment wilson.com
S_wilson == << <<"wilson.com">> >>
\* https://www.wilson.com/sm, https://www.wilson.com/blog and
\* https://a.com/wilson.com
U_wilsonSitemap == AbsUrl(OriginW, <<<<K_sitemap>>>>, FALSE, FALSE)
U_wilsonBlog == AbsUrl(OriginW, <<S_blog>>, FALSE, FALSE)
U_aboutWilson == AbsUrl(OriginA, <<S_wilson>>, FALSE, FALSE)

\* the raw string of an absolute URL: its origin, then its path
UrlText(url) == url.origin \o Flatten(Flatten(url.path))

\* isWilsonUrl: url.includes('wilson.com') on the raw string
isWilsonUrl(url) == Includes(UrlText(url), <<"wilson.com">>)

\* a request without an eds_process header
NoHeader == "(none)"

\* a request as axios sends it
Request(site, method, url, eds_process) ==
  [site |-> site, method |-> method, url |-> url, eds_process |-> eds_process]

\* sitemap.js 97-100 and 167-169, recheck_urls.js 24-29
SitemapHeader(url) == IF isWilsonUrl(url) THEN "h9E9Fvp#kvbpq93m" ELSE NoHeader

\* soft404.js 79-82 and 167-170
Soft404Header(url) == IF isWilsonUrl(url) THEN "special-wilson-header" ELSE NoHeader

\* soft404.js 722-728 and 787-801: requestOptions.headers has no eds_process
StatusScanHeader(url) == NoHeader

\* the URLs requested
RequestUrls == {SitemapUrlA, U_blog, U_wilsonSitemap, U_wilsonBlog, U_aboutWilson}

InitHeader ==
  /\ wire = <<>>
  /\ rawUrls = <<>>
  /\ urls = <<>>
  /\ normalizedUrlMap = <<>>
  /\ acc = EmptyAcc
  /\ i = 0
  /\ leafPc = "idle"
  /\ report = NoReport
  /\ served = <<>>
  /\ PoolIdle
  /\ ProbeIdle
  /\ TreeIdle
  /\ SuggestIdle
  /\ SoftIdle
  /\ RecheckIdle

\* the requests followed stay within the bound
CanSend(reqs) == Len(wire) + Len(reqs) <= MaxRequests

\* the variables no request changes
notWire == <<leafVars, poolVars, probeVars, treeVars, suggestVars, softVars, recheckVars>>

\* sitemap.js 84-109: fetchXml
SitemapFetchXml(url) ==
  LET reqs == <<Request("sitemap.js fetchXml", "GET", url, SitemapHeader(url))>>
  IN /\ CanSend(reqs)
     /\ wire' = wire \o reqs
     /\ UNCHANGED notWire

\* sitemap.js 151-171: checkUrlStatus
SitemapCheckUrlStatus(url) ==
  LET reqs == <<Request("sitemap.js checkUrlStatus", "GET", url, SitemapHeader(url))>>
  IN /\ CanSend(reqs)
     /\ wire' = wire \o reqs
     /\ UNCHANGED notWire

\* recheck_urls.js 12-31: checkUrlStatus
RecheckCheckUrlStatus(url) ==
  LET reqs == <<Request("recheck_urls.js checkUrlStatus", "GET", url, SitemapHeader(url))>>
  IN /\ CanSend(reqs)
     /\ wire' = wire \o reqs
     /\ UNCHANGED notWire

\* soft404.js 68-91: fetchContent, the sitemap fetch of the soft-404 scan
Soft404FetchContent(url) ==
  LET reqs == <<Request("soft404.js fetchContent", "GET", url, Soft404Header(url))>>
  IN /\ CanSend(reqs)
     /\ wire' = wire \o reqs
     /\ UNCHANGED notWire

\* soft404.js 156-175: fetchPageContent
Soft404FetchPageContent(url) ==
  LET reqs == <<Request("soft404.js fetchPageContent", "GET", url, Soft404Header(url))>>
  IN /\ CanSend(reqs)
     /\ wire' = wire \o reqs
     /\ UNCHANGED notWire

\* soft404.js 718-737: fetchXml of the rate-limited scan
StatusScanFetchXml(url) ==
  LET reqs == <<Request("soft404.js fetchXml", "GET", url, StatusScanHeader(url))>>
  IN /\ CanSend(reqs)
     /\ wire' = wire \o reqs
     /\ UNCHANGED notWire

\* soft404.js 779-811: checkUrlStatus of the rate-limited scan, a HEAD and,
\* when the HEAD fails, a GET with the same requestOptions
StatusScanCheckUrlStatus(url, headFails) ==
  LET reqs == <<Request("soft404.js checkUrlStatus", "HEAD", url, StatusScanHeader(url))>>
                  \o (IF headFails
                      THEN <<Request("soft404.js checkUrlStatus", "GET", url, StatusScanHeader(url))>>
                      ELSE <<>>)
  IN /\ CanSend(reqs)
     /\ wire' = wire \o reqs
     /\ UNCHANGED notWire

NextHeader ==
  \/ \E url \in RequestUrls : SitemapFetchXml(url)
  \/ \E url \in RequestUrls : SitemapCheckUrlStatus(url)
  \/ \E url \in RequestUrls : RecheckCheckUrlStatus(url)
  \/ \E url \in RequestUrls : Soft404FetchContent(url)
  \/ \E url \in RequestUrls : Soft404FetchPageContent(url)
  \/ \E url \in RequestUrls : StatusScanFetchXml(url)
  \/ \E url \in RequestUrls, headFails \in BOOLEAN : StatusScanCheckUrlStatus(url, headFails)

SpecHeader == InitHeader /\ [][NextHeader]_vars

(***************************************************************************)
(* recheck_urls.js 92-204 on a report file written by sitemap.js 414-451   *)
(* or by the rate-limited scan, soft404.js 1084-1112.  Of a report line    *)
(* only its first cell matters: row.URL.                                   *)
(***************************************************************************)
\* the most data rows of a report
MaxRows == 2

\* a string that is not a URL and reads text
Label(text) == [kind |-> "bad", origin |-> <<text>>, path |-> <<>>, slash |-> FALSE, query |-> FALSE]

\* sitemap.js 435-442: the first cells of the summary rows
SitemapSummaryRows ==
  <<"Total URLs Checked:", "Successful (200):", "Redirects:", "Errors:",
    "Redundant URLs:", "Not OK Percentage:">>

\* soft404.js 1098-1106: the first cells of the summary rows
StatusScanSummaryRows ==
  <<"Total URLs Checked:", "Successful (200):", "Redirects:", "Errors:",
    "Redundant URLs:", "Not OK Percentage:", "Elapsed Time (seconds):">>

\* fs.writeFileSync(filename, `URL,...\n${csvContent}\n${summary}`): the
\* header line, a line per result, then the summary rows
WriteReport(resultUrls, summaryRows) ==
  [header |-> "URL",
   data |-> resultUrls,
   lines |-> resultUrls \o [k \in 1..Len(summaryRows) |-> Label(summaryRows[k])]]

\* recheck_urls.js 104-112: the test of a row, the same as isDataRow of
\* create_opportunity.js 375-385
RowIsKept(cell) ==
  /\ Truthy(cell)
  /\ ~Includes(UrlText(cell), <<"Total URLs Checked:">>)
  /\ ~Includes(UrlText(cell), <<"Successful (200):">>)
  /\ ~Includes(UrlText(cell), <<"Redirects:">>)
  /\ ~Includes(UrlText(cell), <<"Errors:">>)
  /\ ~Includes(UrlText(cell), <<"Not OK Percentage:">>)
  /\ ~Includes(UrlText(cell), <<"Redundant URLs:">>)

\* recheck_urls.js 98-116: csv() takes the first line as the column names
\* and gives every other line as a row; urls.push(row.URL) for a row kept
ReadUrls(file) == IF file.header = "URL" THEN SelectSeq(file.lines, RowIsKept) ELSE <<>>

RECURSIVE RecheckUrlMap(_, _)
\* recheck_urls.js 138-141: normalizedUrlMap.set(normalizeUrl(url, url), url)
RecheckUrlMap(urlList, map) ==
  IF urlList = <<>> THEN map
  ELSE RecheckUrlMap(Tail(urlList),
                     MapSet(map, normalizeUrl(Head(urlList), Head(urlList)), Head(urlList)))

\* recheck_urls.js 152-201: one iteration of the loop
RecheckClassify(counts, results, result, map) ==
  IF IsRedirect(result)
  THEN LET hit == RedundancyLookup(map, normalizeUrl(result.redirectUrl, result.url))
       IN [counts |-> [counts EXCEPT !.redirectCount = @ + 1,
                                     !.redundantCount = IF hit.found THEN @ + 1 ELSE @],
           results |-> Append(results,
                         [url |-> result.url, status |-> result.status,
                          redirectUrl |-> result.redirectUrl,
                          redundantUrl |-> hit.found, targetUrl |-> hit.target])]
  ELSE [counts |-> IF IsSuccess(result.status)
                   THEN [counts EXCEPT !.successCount = @ + 1]
                   ELSE [counts EXCEPT !.errorCount = @ + 1],
        results |-> Append(results,
                      [url |-> result.url, status |-> result.status,
                       redirectUrl |-> IF Truthy(result.redirectUrl)
                                       THEN result.redirectUrl ELSE EmptyString,
                       redundantUrl |-> FALSE, targetUrl |-> EmptyString])]

\* the URLs of the results of a scan, which lists every URL once
ReportedUrls == {U_blog, U_blogSlash, U_post}
ScanResultUrls ==
  {list \in UNION {[1..m -> ReportedUrls] : m \in 0..MaxRows} :
     \A j, k \in 1..Len(list) : list[j] = list[k] => j = k}

\* what a server may do with the GET of a recheck; a string that is not a
\* URL reaches no server
RecheckAnswers(url) ==
  IF Parses(url)
  THEN {Answer(200, Undefined), Answer(404, Undefined), NoResponse,
        Answer(301, U_blog), Answer(301, U_ext), Answer(301, Undefined)}
  ELSE {NoResponse}

InitRecheck ==
  /\ \E resultUrls \in ScanResultUrls,
        summaryRows \in {SitemapSummaryRows, StatusScanSummaryRows} :
       reportFile = WriteReport(resultUrls, summaryRows)
  /\ listed = <<>>
  /\ rechecked = <<>>
  /\ recheckCounts = [successCount |-> 0, redirectCount |-> 0, errorCount |-> 0, redundantCount |-> 0]
  /\ recheckPc = "read"
  /\ rawUrls = <<>>
  /\ urls = <<>>
  /\ normalizedUrlMap = <<>>
  /\ acc = EmptyAcc
  /\ i = 0
  /\ leafPc = "idle"
  /\ report = NoReport
  /\ served = <<>>
  /\ PoolIdle
  /\ ProbeIdle
  /\ TreeIdle
  /\ SuggestIdle
  /\ SoftIdle
  /\ HeaderIdle

\* the variables recheck_urls.js does not change
notRecheck == <<leafVars, poolVars, probeVars, treeVars, suggestVars, softVars, headerVars>>

\* recheck_urls.js 98-130: the rows are read; without a URL the script ends
ReadReport ==
  /\ recheckPc = "read"
  /\ listed' = ReadUrls(reportFile)
  /\ recheckPc' = IF Len(listed') = 0 THEN "done" ELSE "probing"
  /\ UNCHANGED <<reportFile, rechecked, recheckCounts, notRecheck>>

\* recheck_urls.js 144-201: the probe of the next URL and its counting
RecheckProbe ==
  /\ recheckPc = "probing"
  /\ Len(rechecked) < Len(listed)
  /\ LET url == listed[Len(rechecked) + 1]
     IN \E answer \in RecheckAnswers(url) :
          LET step == RecheckClassify(recheckCounts, rechecked, checkUrlStatus(url, answer),
                                      RecheckUrlMap(listed, <<>>))
          IN /\ rechecked' = step.results
             /\ recheckCounts' = step.counts
  /\ UNCHANGED <<reportFile, listed, recheckPc, notRecheck>>

\* recheck_urls.js 204-240: the new report is written
RecheckFinish ==
  /\ recheckPc = "probing"
  /\ Len(rechecked) = Len(listed)
  /\ recheckPc' = "done"
  /\ UNCHANGED <<reportFile, listed, rechecked, recheckCounts, notRecheck>>

NextRecheck ==
  \/ ReadReport
  \/ RecheckProbe
  \/ RecheckFinish

SpecRecheck == InitRecheck /\ [][NextRecheck]_vars

(***************************************************************************)
(* Properties.                                                             *)
(***************************************************************************)
\* the records of the leaf scan so far, and counting among them
Records == acc.results
RecordsWith(statuses) == {k \in 1..Len(Records) : Records[k].status \in statuses}
RedirectRecords ==
  {k \in 1..Len(Records) :
     Records[k].status \in {301, 302} /\ Truthy(Records[k].redirectUrl)}
Is3xxRedirectStatus(status) == status = 301 \/ status = 302

\* the tasks started and not yet settled
InFlight ==
  {t \in 0..(Len(outcomes) - 1) : InSeq(t, startLog) /\ outcomes[t + 1].state = "pending"}

\* runWithConcurrency has resolved: every worker has left its loop
PoolResolved ==
  /\ workers # <<>>
  /\ \A w \in 1..Len(workers) : workers[w].pc = "finished"

SomeTaskThrew == \E k \in 1..Len(outcomes) : outcomes[k].state = "threw"

\* C1: in every state of runWithConcurrency the number of tasks started and not
\* yet settled is at most limit and at most tasks.length.
C1_InFlightAtMostLimit ==
  /\ Cardinality(InFlight) <= limit
  /\ Cardinality(InFlight) <= Len(urls)

\* C1 witness: the limit binds: limit tasks are in flight, one has settled,
\* and a task is still unclaimed
C1_Witness ==
  /\ Cardinality(InFlight) = limit
  /\ completed > 0
  /\ index < Len(urls)

\* C2: when runWithConcurrency resolves, the array has tasks.length slots, none
\* left empty, and slot i holds what tasks[i] produced, whatever the
\* completion order (the value it returned, undefined when it threw).
C2_ResultsInInputOrder ==
  PoolResolved =>
    /\ Len(allResults) = Len(urls)
    /\ \A k \in 1..Len(allResults) :
         /\ allResults[k].state # "hole"
         /\ outcomes[k].state = "returned" =>
              (allResults[k] = ValueSlot(outcomes[k].value)
                 /\ allResults[k].value.url = urls[k])
         /\ outcomes[k].state = "threw" => allResults[k] = UndefinedSlot

\* C2 witness: a resolved batch of three tasks that all returned, the first
\* task settling last
C2_Witness ==
  /\ PoolResolved
  /\ Len(urls) >= 3
  /\ settleLog[Len(settleLog)] = 0
  /\ \A k \in 1..Len(outcomes) : outcomes[k].state = "returned"
  /\ \E j, k \in 1..Len(outcomes) : outcomes[j].value.status # outcomes[k].value.status

\* C3 (as claimed): when a task of the batch throws, runWithConcurrency still
\* runs every other task and resolves, and the leaf scan completes: it writes
\* the report with a record for each other URL and returns the leaf's counts.
C3_ThrowDoesNotAbortLeafScan ==
  /\ (PoolResolved /\ SomeTaskThrew) =>
       \A k \in 1..Len(outcomes) : outcomes[k].state # "pending"
  /\ (leafPc \in {"done", "rejected"} /\ SomeTaskThrew) =>
       /\ leafPc = "done"
       /\ report.written
       /\ \A k \in 1..Len(outcomes) :
            outcomes[k].state = "returned" =>
              \E r \in 1..Len(report.rows) : report.rows[r].url = urls[k]
       /\ report.summary = SummaryOf(acc)

\* C4 (as claimed): a request answered with 429 is re-issued after a wait, up
\* to RETRY_ATTEMPTS retries; status 429 is the final result only after those
\* retries were all answered with 429.
C4_429IsRetriedBeforeReturned ==
  (probePc = "returned" /\ probeResult.status = 429) =>
    /\ attempt = RETRY_ATTEMPTS + 1
    /\ sleeps = <<REQUEST_DELAY>> \o [k \in 1..RETRY_ATTEMPTS |-> RetryDelay(k)]
    /\ \E k \in 1..Len(requests) :
         k < Len(requests) /\ requests[k].answer.status = 429

\* C5: a probe whose outcome is not HTTP 429 returns from attempt 1: it does
\* not recurse and makes no backoff sleep (only the pacing delay before the
\* first request).
C5_NoRetryForOtherOutcomes ==
  (probePc = "returned" /\ probeResult.status # 429) =>
    /\ attempt = 1
    /\ sleeps = <<REQUEST_DELAY>>
    /\ Len(requests) <= 2
    /\ \A k \in 1..Len(requests) : requests[k].method = "HEAD" <=> k = 1

\* C5 witness: HEAD and GET both failed with a 5xx status and the probe
\* returned that status
C5_Witness ==
  /\ probePc = "returned"
  /\ Len(requests) = 2
  /\ requests[1].answer.status = 503
  /\ probeResult.status = 500

\* C6 (as claimed): every checkUrlStatus result with status 301 or 302 carries a
\* redirectUrl, every other result carries none, and every URL answered with
\* 301/302 is counted as a Redirect.
C6_RedirectAlwaysHasTarget ==
  /\ \A k \in 1..Len(served) :
       LET result == checkUrlStatus(urls[k], served[k])
       IN IF Is3xxRedirectStatus(result.status)
          THEN Truthy(result.redirectUrl)
          ELSE result.redirectUrl = Undefined
  /\ acc.redirectCount = Cardinality(RecordsWith({301, 302}))

\* C7 (as claimed): every URL whose final status is any 2xx code is counted in
\* successCount, not in errorCount, and is added to the known-good list.
C7_Any2xxIsSuccess ==
  /\ acc.successCount = Cardinality(RecordsWith(200..299))
  /\ acc.errorCount <= Len(Records) - Cardinality(RecordsWith(200..299))
  /\ \A k \in RecordsWith(200..299) : InSeq(Records[k].url, acc.validUrls)

\* C7 (amended): exactly the URLs answered with status 200 are counted in
\* successCount and form, in inventory order, the known-good list; a URL with any
\* other 2xx status is counted in errorCount and is not known-good.
C7_Only200IsSuccess ==
  LET Is200(rec) == rec.status = 200
      okRecords == SelectSeq(Records, Is200)
      errorRecords == ((1..Len(Records)) \ RecordsWith({200})) \ RedirectRecords
  IN /\ acc.successCount = Cardinality(RecordsWith({200}))
     /\ acc.validUrls = [k \in 1..Len(okRecords) |-> okRecords[k].url]
     /\ acc.errorCount = Cardinality(errorRecords)
     /\ RecordsWith(201..299) \subseteq errorRecords
     /\ \A k \in RecordsWith(201..299) : ~InSeq(Records[k].url, acc.validUrls)

\* C7 witness: a finished leaf scan with a 200 record and a 204 record
C7_Witness ==
  /\ leafPc = "done"
  /\ \E k \in 1..Len(Records) : Records[k].status = 200
  /\ \E k \in 1..Len(Records) : Records[k].status = 204

\* C8: a URL A answered with 301/302 and a Location L is flagged redundant iff
\* normalizeUrl(L, A) equals the normalised form of some inventory URL B; the
\* recorded target is then such an inventory URL, and A counts as a Redirect
\* whether or not it is redundant.
C8_RedundantIffTargetInInventory ==
  /\ \A k \in 1..Len(Records) :
       (Is3xxRedirectStatus(served[k].status) /\ Truthy(served[k].location)) =>
         LET target == normalizeUrl(served[k].location, urls[k])
             rec == Records[k]
         IN /\ rec.redundantUrl <=>
                 \E b \in 1..Len(urls) : normalizeUrl(urls[b], SitemapUrlA) = target
            /\ rec.redundantUrl =>
                 /\ InSeq(rec.targetUrl, urls)
                 /\ normalizeUrl(rec.targetUrl, SitemapUrlA) = target
            /\ ~rec.redundantUrl => rec.targetUrl = EmptyString
  /\ acc.redirectCount = Cardinality(RedirectRecords)
  /\ acc.redundantCount = Cardinality({k \in 1..Len(Records) : Records[k].redundantUrl})

\* C8 witness: a finished scan in which one URL redirects, by a relative Location,
\* to another inventory URL (redundant) and one redirects outside the inventory
C8_Witness ==
  /\ leafPc = "done"
  /\ \E k \in 1..Len(Records) :
       /\ served[k].location = R_blog
       /\ Records[k].redundantUrl
       /\ Records[k].targetUrl # Records[k].url
  /\ \E k \in 1..Len(Records) :
       /\ served[k] = Answer(301, U_ext)
       /\ ~Records[k].redundantUrl
  /\ acc.redirectCount = 2

\* C9 (as claimed): the redundancy target of a record flagged redundant is an
\* inventory URL different from the record's own URL.
C9_RedundancyTargetIsAnotherEntry ==
  \A k \in 1..Len(Records) :
    Records[k].redundantUrl =>
      /\ InSeq(Records[k].targetUrl, urls)
      /\ Records[k].targetUrl # Records[k].url

\* C10: a child sitemap that cannot be fetched or parsed, or has an
\* unrecognized shape, yields no result for that child only: every child of a
\* resolved index was processed, and a finished run processed every root.
C10_FailedChildDoesNotStopSiblings ==
  /\ \A e \in 1..Len(indexLog) :
       Len(indexLog[e].childResults) = Len(world[indexLog[e].url].children)
  /\ \A f \in 1..Len(stack) :
       stack[f].pc = "children" => stack[f].children = world[stack[f].url].children
  /\ runPc = "done" => Len(rootResults) = Len(sitemapUrls)

\* C10 witness: a finished run whose first root failed and whose second root is
\* an index whose first child failed and whose second child was scanned
C10_Witness ==
  /\ runPc = "done"
  /\ rootResults[1].isNull
  /\ ~rootResults[2].isNull
  /\ \E e \in 1..Len(indexLog) :
       /\ indexLog[e].url = "s2"
       /\ Len(indexLog[e].childResults) = 2
       /\ indexLog[e].childResults[1].isNull
       /\ ~indexLog[e].childResults[2].isNull
       /\ world["s2"].children[2] \in {reportLog[r] : r \in 1..Len(reportLog)}

RECURSIVE SumOfLeaves(_)
\* the field-wise sum of the summaries of a list of leaf sitemaps
SumOfLeaves(leaves) ==
  IF leaves = <<>> THEN SummaryOf(EmptyAcc)
  ELSE LET s == SumOfLeaves(Tail(leaves))
           l == world[Head(leaves)].summary
       IN [totalUrls |-> l.totalUrls + s.totalUrls,
           successCount |-> l.successCount + s.successCount,
           redirectCount |-> l.redirectCount + s.redirectCount,
           errorCount |-> l.errorCount + s.errorCount,
           redundantCount |-> l.redundantCount + s.redundantCount]

\* C11: the summary an index returns, and the overall summary of the run,
\* are the field-wise sums of the summaries of exactly the leaf sitemaps that
\* were fetched and parsed (those whose report was written) below the index,
\* respectively in the run; a sitemap that could not be fetched or parsed
\* adds nothing.
C11_SummaryIsSumOfScannedLeaves ==
  /\ \A r \in 1..Len(reportLog) : world[reportLog[r]].kind = "sitemap"
  /\ \A e \in 1..Len(indexLog) :
       indexLog[e].totalResults =
         SumOfLeaves(SubSeq(reportLog, indexLog[e].reportsBefore + 1,
                            indexLog[e].reportsAfter))
  /\ (runPc \in {"main", "done"} /\ stack = <<>>) => overall = SumOfLeaves(reportLog)

\* C11 witness: a finished run with an index of two children, one of which
\* failed while the other was scanned and reported redundant URLs, and a
\* second root that is a leaf
C11_Witness ==
  /\ runPc = "done"
  /\ Len(reportLog) = 2
  /\ overall.redundantCount > 0
  /\ \E e \in 1..Len(indexLog) :
       /\ Len(indexLog[e].childResults) = 2
       /\ indexLog[e].childResults[1].isNull
       /\ ~indexLog[e].childResults[2].isNull
       /\ indexLog[e].totalResults.redundantCount > 0
       /\ indexLog[e].totalResults # overall

\* C12 (as claimed): processSitemap terminates on every finite set of
\* documents, cyclic ones included, and no sitemap URL is fetched and resolved
\* more than once within one resolution: no call is ever nested in a call for
\* the same URL, and no leaf is scanned twice below one index.
C12_NoSitemapResolvedTwice ==
  /\ \A f, g \in 1..Len(stack) : f # g => stack[f].url # stack[g].url
  /\ \A e \in 1..Len(indexLog) :
       \A a, b \in (indexLog[e].reportsBefore + 1)..indexLog[e].reportsAfter :
         a # b => reportLog[a] # reportLog[b]

\* the position of the first occurrence of x in list
FirstOccurrence(list, x) ==
  CHOOSE k \in 1..Len(list) : list[k] = x /\ \A j \in 1..(k - 1) : list[j] # x
Occurrences(list, x) == Cardinality({k \in 1..Len(list) : list[k] = x})
InventoryOfRaw == {rawUrls[k] : k \in 1..Len(rawUrls)}

AnsweredCalls ==
  {k \in 1..Len(suggestions) : Parses(brokenUrls[k]) /\ Len(knownGood) > 0}

\* the proper ancestor of url made of its origin and its first j path segments
Ancestor(url, j) == ParentUrl(url.origin, PathParts(url), j)

\* the levels of the proper ancestors of url that are known-good
KnownGoodAncestors(url) ==
  {j \in 0..(Len(PathParts(url)) - 1) : InSeq(Ancestor(url, j), knownGood)}

\* C14: with a non-empty known-good list, findSimilarUrl returns the nearest
\* proper ancestor that is exactly a known-good URL whenever one exists,
\* whether or not a keyword-overlap candidate exists, and never a farther one.
C14_NearestKnownGoodAncestor ==
  \A k \in AnsweredCalls :
    \A j \in KnownGoodAncestors(brokenUrls[k]) :
      (\A n \in KnownGoodAncestors(brokenUrls[k]) : n <= j) =>
        suggestions[k] = Ancestor(brokenUrls[k], j)

\* C14 witness: for /blog/old-post/old the known-good list holds the farther
\* ancestor /blog (also a keyword candidate) before the nearer /blog/old-post,
\* and the nearer one is returned
C14_Witness ==
  /\ Len(suggestions) >= 1
  /\ brokenUrls[1] = U_deep
  /\ knownGood = <<U_blog, U_post>>
  /\ suggestions[1] = U_post

\* the known-good URLs on the origin of url that share a keyword with it: the
\* positions, in list order, of the candidates of the keyword strategy
KeywordCandidates(url) ==
  {g \in 1..Len(knownGood) :
     /\ Parses(knownGood[g])
     /\ knownGood[g].origin = url.origin
     /\ KeywordOverlap(Flatten(PathParts(url)), knownGood[g])}

\* C15 (as claimed): when no ancestor matches, findSimilarUrl returns the first
\* known-good URL, in list order, that is on the origin of the broken URL and
\* shares a keyword with it; a URL of another origin is never returned.
C15_FirstSameOriginKeywordMatch ==
  \A k \in AnsweredCalls :
    KnownGoodAncestors(brokenUrls[k]) = {} =>
      /\ \A g \in KeywordCandidates(brokenUrls[k]) :
           (\A h \in KeywordCandidates(brokenUrls[k]) : g <= h) =>
             suggestions[k] = knownGood[g]
      /\ Parses(suggestions[k]) => suggestions[k].origin = brokenUrls[k].origin

\* neither strategy of findSimilarUrl yields a match for url: no proper ancestor
\* is known-good, and no known-good URL that starts with the origin of url
\* shares a keyword with it
NoStrategyMatches(url) ==
  /\ KnownGoodAncestors(url) = {}
  /\ \A g \in 1..Len(knownGood) :
       ~(StartsWith(knownGood[g], url.origin)
           /\ KeywordOverlap(Flatten(PathParts(url)), knownGood[g]))

\* the string origin, without path
OriginRoot(url) == [kind |-> "abs", origin |-> url.origin, path |-> <<>>,
                    slash |-> FALSE, query |-> FALSE]

\* C16 (as claimed): for a parseable URL for which neither strategy yields a
\* match, findSimilarUrl returns the origin root, for every known-good list,
\* the empty one included.
C16_OriginRootForEveryList ==
  \A k \in 1..Len(suggestions) :
    (Parses(brokenUrls[k]) /\ NoStrategyMatches(brokenUrls[k])) =>
      suggestions[k] = OriginRoot(brokenUrls[k])

\* C16 (amended): with a non-empty known-good list, a parseable URL for which
\* neither strategy yields a match gets its origin root; with an empty
\* known-good list findSimilarUrl returns the empty string for every URL.
C16_OriginRootForNonEmptyList ==
  \A k \in 1..Len(suggestions) :
    IF Len(knownGood) = 0
    THEN suggestions[k] = EmptyString
    ELSE (Parses(brokenUrls[k]) /\ NoStrategyMatches(brokenUrls[k])) =>
           suggestions[k] = OriginRoot(brokenUrls[k])

\* C16 witness: the only known-good URL is on another origin, and the
\* suggestion for /blog/old-post is the origin of the broken URL
C16_Witness ==
  /\ Len(suggestions) >= 1
  /\ brokenUrls[1] = U_post
  /\ knownGood = <<U_ext>>
  /\ suggestions[1] = OriginRoot(U_post)

\* a string that is not an absolute URL: new URL(url) throws a TypeError
Unparseable(url) == url.kind \in {"bad", "rel", "empty", "undefined"}

\* C17: for an unparseable URL findSimilarUrl returns the empty string
\* instead of throwing, and the URLs handled after it still get their
\* suggestion.
C17_UnparseableGivesEmptySuggestion ==
  \A k \in 1..Len(suggestions) :
    IF Unparseable(brokenUrls[k])
    THEN suggestions[k] = EmptyString
    ELSE Len(knownGood) > 0 => Truthy(suggestions[k])

\* C17 witness: the first URL is unparseable and gets '', the second one is
\* handled after it and gets its known-good parent
C17_Witness ==
  /\ brokenUrls = <<BadUrl, U_post>>
  /\ knownGood = <<U_blog>>
  /\ suggestions = <<EmptyString, U_blog>>

\* the complete known-good list of the finished leaf: its URLs that returned
\* 200, in inventory order
CompleteKnownGood ==
  LET Is200(row) == row.status = 200
      ok == SelectSeq(report.rows, Is200)
  IN [k \in 1..Len(ok) |-> ok[k].url]

\* C18 (as claimed): in the final report of a leaf the suggestion of every 404
\* record is findSimilarUrl(url, K), K being the complete list of the leaf's
\* URLs that returned 200.
C18_SuggestionsUseCompleteKnownGood ==
  (leafPc = "done" /\ report.written) =>
    \A r \in 1..Len(report.rows) :
      report.rows[r].status = 404 =>
        report.rows[r].urlSuggested =
          findSimilarUrl(report.rows[r].url, CompleteKnownGood)

HasStrongPhrase(page) ==
  \E p \in 1..Len(STRONG_INDICATORS) :
    \E text \in {page.title, page.h1, page.meta} :
      Includes(toLowerCase(text), STRONG_INDICATORS[p])

\* C20: for an HTTP 200 page with non-empty HTML in which a strong phrase
\* occurs in the title, the h1 text or the meta description,
\* checkForSoft404 returns isSoft404 = true, whatever the body length, the
\* forms, inputs and buttons of the page, and the URL path.
C20_StrongIndicatorIsSoft404 ==
  (/\ softPc \in {"counted", "rejected"}
   /\ softFetched.status = 200
   /\ ~softFetched.content.empty
   /\ HasStrongPhrase(softFetched.content.page)) =>
    /\ ~softResult.threw
    /\ softResult.isSoft404
    /\ softCounts.soft404Count = 1

\* C20 witness: /blog/old-post answers 200 with a page titled "Page Not
\* Found" that has a long body, a form and a button, and is a soft 404
C20_Witness ==
  /\ softPc = "counted"
  /\ softUrl = U_post
  /\ softFetched.status = 200
  /\ ~softFetched.content.empty
  /\ softFetched.content.page.title = <<"Page", "Not", "Found">>
  /\ softFetched.content.page.bodyLength >= MINIMAL_CONTENT_LENGTH
  /\ {"form", "button"} \subseteq softFetched.content.page.elements
  /\ softResult.isSoft404

\* the iteration has checked an HTTP 200 page with non-empty HTML and no
\* strong phrase
CheckedWithoutStrongPhrase ==
  /\ softPc \in {"counted", "rejected"}
  /\ softFetched.status = 200
  /\ ~softFetched.content.empty
  /\ ~HasStrongPhrase(softFetched.content.page)

\* the page has a form, a text or email input or textarea, or a button
IsInteractive(page) ==
  page.elements \cap {"form", "searchInForm", "textInForm", "textInput", "button"} # {}

\* C21 (as claimed): for an HTTP 200 page with no strong indicator, an
\* interactive element makes checkForSoft404 return isSoft404 = false,
\* whatever the number of weak indicators and whatever the URL path.
C21_InteractiveElementOverrides ==
  (CheckedWithoutStrongPhrase /\ IsInteractive(softFetched.content.page)) =>
    ~softResult.isSoft404

\* the number of accumulated weak indicators of a page
WeakCount(page) ==
  LET phrases == {p \in 1..Len(WEAK_INDICATORS) :
                    \E text \in {page.title, page.h1, page.meta} :
                      Includes(toLowerCase(text), WEAK_INDICATORS[p])}
      minimal == /\ page.bodyLength < MINIMAL_CONTENT_LENGTH
                 /\ page.elements \cap {"form", "textInForm", "textInput"} = {}
      search == /\ page.elements \cap {"searchInForm", "textInForm"} # {}
                /\ \E ph \in {<<"no", "results">>, <<"no", "matches">>, <<"nothing", "found">>} :
                     Includes(toLowerCase(page.body), ph)
      image == "img404" \in page.elements
  IN Cardinality(phrases) + (IF minimal THEN 1 ELSE 0) + (IF search THEN 1 ELSE 0)
       + (IF image THEN 1 ELSE 0)

\* C22: for an HTTP 200 page with no strong indicator, isSoft404 is never
\* true with fewer than two weak indicators, never with fewer than three on a
\* path recognised as likely legitimate, and, on another path and without
\* interactive element, true exactly when there are at least two.
C22_WeakIndicatorThresholds ==
  CheckedWithoutStrongPhrase =>
    LET page == softFetched.content.page
        n == WeakCount(page)
    IN /\ ~softResult.threw
       /\ Len(softResult.indicators) = n
       /\ softResult.isSoft404 => n >= 2
       /\ (softResult.isSoft404 /\ isLikelyLegitPage(softUrl)) => n >= 3
       /\ (~isLikelyLegitPage(softUrl) /\ ~IsInteractive(page)) =>
            (softResult.isSoft404 <=> n >= 2)

\* C22 witness: /blog/old-post, a likely legitimate path, answers 200 with a
\* page without interactive element and exactly three weak indicators, and
\* is a soft 404
C22_Witness ==
  /\ CheckedWithoutStrongPhrase
  /\ softUrl = U_post
  /\ ~IsInteractive(softFetched.content.page)
  /\ WeakCount(softFetched.content.page) = 3
  /\ softResult.isSoft404

\* the value of the eds_process header the README documents for wilson.com
DocumentedHeader == "h9E9Fvp#kvbpq93m"
\* the hostname of the request's URL contains wilson.com
HostIsWilson(url) == Includes(url.origin, <<"wilson.com">>)

\* C23: every request to a wilson.com URL carries the eds_process header
\* with the documented value, whichever tool and function sends it.
C23_WilsonRequestsCarryDocumentedHeader ==
  \A k \in 1..Len(wire) :
    HostIsWilson(wire[k].url) => wire[k].eds_process = DocumentedHeader

\* C30: no request to a URL whose hostname does not contain wilson.com
\* carries an eds_process header.
C30_HeaderOnlyForWilsonHosts ==
  \A k \in 1..Len(wire) :
    ~HostIsWilson(wire[k].url) => wire[k].eds_process = NoHeader

\* C24: the URLs recheck_urls reads from a report, probes and counts are
\* exactly the URLs of the report's data rows, in report order.
C24_RecheckReadsExactlyTheDataRows ==
  /\ recheckPc \in {"probing", "done"} => listed = reportFile.data
  /\ \A k \in 1..Len(rechecked) : k <= Len(reportFile.data) /\ rechecked[k].url = reportFile.data[k]
  /\ recheckCounts.successCount + recheckCounts.redirectCount + recheckCounts.errorCount
       <= Len(reportFile.data)

\* C25: no task is started twice, no two workers await the same task, no
\* result slot is written twice, every slot written was claimed, and when
\* runWithConcurrency resolves every task 0..n-1 was started and settled.
C25_EachTaskClaimedExactlyOnce ==
  /\ \A j, k \in 1..Len(startLog) : startLog[j] = startLog[k] => j = k
  /\ \A k \in 1..Len(startLog) : startLog[k] \in 0..(Len(urls) - 1)
  /\ \A v, w \in 1..Len(workers) :
       (v # w /\ workers[v].pc = "awaiting" /\ workers[w].pc = "awaiting")
         => workers[v].current # workers[w].current
  /\ \A j, k \in 1..Len(settleLog) : settleLog[j] = settleLog[k] => j = k
  /\ \A k \in 1..Len(settleLog) : InSeq(settleLog[k], startLog)
  /\ PoolResolved =>
       /\ {startLog[k] : k \in 1..Len(startLog)} = 0..(Len(urls) - 1)
       /\ {settleLog[k] : k \in 1..Len(settleLog)} = 0..(Len(urls) - 1)

\* C25 witness: three tasks on two workers resolved, the second task
\* settling before the first, so that the first worker took no second task
C25_Witness ==
  /\ PoolResolved
  /\ Len(urls) = 3
  /\ limit = 2
  /\ settleLog = <<1, 2, 0>>

\* what holds of a call of checkUrlStatus in every state: at most
\* RETRY_ATTEMPTS + 1 attempts of at most two requests, the pacing delay and
\* then the delay RETRY_DELAY * 2^(k-1) before retry k, and a returned value
\* that holds the URL and the status of the last answer, 'Network Error'
\* when there was no response
ProbeBoundedAndClassified ==
  /\ attempt \in 1..(RETRY_ATTEMPTS + 1)
  /\ Len(requests) <= 2 * attempt
  /\ sleeps = (IF probePc = "delay" /\ attempt = 1 THEN <<>> ELSE <<REQUEST_DELAY>>)
                \o [k \in 1..(attempt - 1) |-> RETRY_DELAY * 2 ^ (k - 1)]
  /\ probePc = "returned" =>
       LET last == requests[Len(requests)].answer
       IN /\ probeResult.url = probeUrl
          /\ probeResult.status = (IF last.responded THEN last.status ELSE NetworkError)
          /\ probeResult.redirectUrl # Undefined => probeResult.status \in {301, 302}

\* C26: every call of checkUrlStatus returns a result, after at most
\* RETRY_ATTEMPTS + 1 attempts with the backoff delays between them, and the
\* result holds the HTTP status or 'Network Error'.
C26_ProbeAlwaysSettlesWithAResult ==
  /\ <>(probePc = "returned")
  /\ []ProbeBoundedAndClassified

\* C26 witness: the HEAD met a connection failure, the GET fallback an HTTP
\* 500, and the call returned the status 500
C26_Witness ==
  /\ probePc = "returned"
  /\ Len(requests) = 2
  /\ ~requests[1].answer.responded
  /\ requests[2].answer.status = 500
  /\ probeResult.status = 500

C28_LeafReportWrittenBeforeNextSitemap ==
  [][/\ Len(reportLog') >= Len(reportLog)
     /\ SubSeq(reportLog', 1, Len(reportLog)) = reportLog
     /\ (stack # <<>> /\ Top.pc = "scan" /\ stack' # stack) =>
          reportLog' = Append(reportLog, Top.url)
     /\ (stack # <<>> /\ Top.pc \in {"fetch", "parse"}) => reportLog' = reportLog]_vars

\* C28 witness: the first root was a leaf and its report is written, the
\* second root could not be fetched or parsed, and the run ended
C28_Witness ==
  /\ runPc = "done"
  /\ reportLog = <<"s1">>
  /\ Len(rootResults) = 2
  /\ ~rootResults[1].isNull
  /\ rootResults[2].isNull

\* the three counters of a summary add up to its total and its redundant
\* count is at most its redirect count
CountsAddUp(sm) ==
  /\ sm.successCount + sm.redirectCount + sm.errorCount = sm.totalUrls
  /\ sm.redundantCount <= sm.redirectCount

\* C29: in a leaf scan every record is counted in exactly one of
\* successCount, redirectCount and errorCount; when the scan is done their
\* sum is totalUrls, the number of records and the number of distinct URLs
\* of the leaf, and redundantCount <= redirectCount; the sums of an index,
\* of the whole run and of a recheck add up in the same way.
C29_CountsAddUp ==
  /\ acc.successCount + acc.redirectCount + acc.errorCount = Len(acc.results)
  /\ acc.redundantCount <= acc.redirectCount
  /\ leafPc = "done" =>
       /\ CountsAddUp(report.summary)
       /\ report.summary.totalUrls = Len(report.rows)
       /\ report.summary.totalUrls = Cardinality({rawUrls[k] : k \in 1..Len(rawUrls)})
       /\ \A j, k \in 1..Len(report.rows) :
            report.rows[j].url = report.rows[k].url => j = k
  /\ \A k \in 1..Len(indexLog) : CountsAddUp(indexLog[k].totalResults)
  /\ \A k \in 1..Len(rootResults) : CountsAddUp(rootResults[k].summary)
  /\ CountsAddUp(overall)
  /\ recheckCounts.successCount + recheckCounts.redirectCount + recheckCounts.errorCount
       = Len(rechecked)
  /\ recheckCounts.redundantCount <= recheckCounts.redirectCount
  /\ recheckPc = "done" => Len(rechecked) = Len(listed)

\* C29 witness: a finished leaf that listed one URL twice and another once:
\* two records, a success and a redundant redirect
C29_Witness ==
  /\ leafPc = "done"
  /\ Len(rawUrls) > Len(report.rows)
  /\ report.summary.totalUrls = 2
  /\ report.summary.successCount = 1
  /\ report.summary.redirectCount = 1
  /\ report.summary.redundantCount = 1

=============================================================================
